---- MODULE Spec2Model ----
(***************************************************************************)
(* A model of the Stockfish UCI client of src/src/py-stockfish/models.ts:  *)
(* the transport (#put, #readline), the parameter state                    *)
(* (update_engine_parameters, _set_option, get_engine_parameters), the     *)
(* operations built on them, and the worker process as a black box that    *)
(* answers the commands it is sent, in order.                              *)
(***************************************************************************)
EXTENDS Integers, Sequences, FiniteSets, TLC

(***************************************************************************)
(* JavaScript values.  A value carries its typeof tag, so that a string    *)
(* "16" and the number 16 are different values of different types.         *)
(***************************************************************************)
Num(n) == [t |-> "number", n |-> n, s |-> "", b |-> FALSE]
Str(x) == [t |-> "string", n |-> 0, s |-> x, b |-> FALSE]
Bool(x) == [t |-> "boolean", n |-> 0, s |-> "", b |-> x]
\* NaN is a number that is neither below nor above any number, and differs
\* from every value, itself included.
NaN == [t |-> "number", n |-> 0, s |-> "NaN", b |-> FALSE]
typeof(v) == v.t
IsNaN(v) == v.t = "number" /\ v.s = "NaN"
\* value < bound, value > bound and a !== b on values
Below(value, bound) == ~IsNaN(value) /\ value.n < bound
Over(value, bound) == ~IsNaN(value) /\ value.n > bound
StrictlyUnequal(a, b) == IsNaN(a) \/ IsNaN(b) \/ a # b

\* The keys of StockfishParameters, in the order the object literal of
\* DEFAULT_STOCKFISH_PARAMS lists them (the order Object.entries yields).
ParamKeyOrder ==
  << "Debug Log File", "Threads", "Ponder", "Hash", "MultiPV", "Skill Level",
     "Move Overhead", "UCI_Chess960", "UCI_LimitStrength", "UCI_Elo",
     "UCI_ShowWDL" >>

ParamKeys == { ParamKeyOrder[i] : i \in 1..Len(ParamKeyOrder) }

\* _PARAM_RESTRICTIONS: the type of each option and, for numbers, its bounds.
Restrict(ty, lo, hi) == [type |-> ty, bounded |-> ty = "number", min |-> lo, max |-> hi]

PARAM_RESTRICTIONS ==
  [k \in ParamKeys |->
     CASE k = "Debug Log File"    -> Restrict("string", 0, 0)
       [] k = "Threads"           -> Restrict("number", 1, 1024)
       [] k = "Hash"              -> Restrict("number", 1, 2048)
       [] k = "Ponder"            -> Restrict("boolean", 0, 0)
       [] k = "MultiPV"           -> Restrict("number", 1, 500)
       [] k = "Skill Level"       -> Restrict("number", 0, 20)
       [] k = "Move Overhead"     -> Restrict("number", 0, 5000)
       [] k = "UCI_Chess960"      -> Restrict("boolean", 0, 0)
       [] k = "UCI_LimitStrength" -> Restrict("boolean", 0, 0)
       [] k = "UCI_Elo"           -> Restrict("number", 1320, 3190)
       [] k = "UCI_ShowWDL"       -> Restrict("boolean", 0, 0)]

\* The object literal DEFAULT_STOCKFISH_PARAMS as the class is loaded.
DEFAULT_STOCKFISH_PARAMS ==
  [k \in ParamKeys |->
     CASE k = "Debug Log File"    -> Str("")
       [] k = "Threads"           -> Num(1)
       [] k = "Ponder"            -> Bool(FALSE)
       [] k = "Hash"              -> Num(16)
       [] k = "MultiPV"           -> Num(1)
       [] k = "Skill Level"       -> Num(20)
       [] k = "Move Overhead"     -> Num(10)
       [] k = "UCI_Chess960"      -> Bool(FALSE)
       [] k = "UCI_LimitStrength" -> Bool(FALSE)
       [] k = "UCI_Elo"           -> Num(1350)
       [] k = "UCI_ShowWDL"       -> Bool(FALSE)]

(***************************************************************************)
(* #validate_param_value: "ok", or the error the method throws.            *)
(***************************************************************************)
validate_param_value(name, value) ==
  IF name \notin DOMAIN PARAM_RESTRICTIONS THEN "unsupported"
  ELSE LET r == PARAM_RESTRICTIONS[name] IN
    IF typeof(value) # r.type THEN "type"
    ELSE IF r.bounded /\ typeof(value) = "number" /\ Below(value, r.min) THEN "below"
    ELSE IF r.bounded /\ typeof(value) = "number" /\ Over(value, r.max) THEN "over"
    ELSE "ok"

(***************************************************************************)
(* A batch (a Partial<StockfishParameters> object) is the sequence of its  *)
(* entries <<key, value>>, in insertion order, without repeated keys.      *)
(***************************************************************************)
Entry(k, v) == [key |-> k, val |-> v]
HasKey(batch, k) == \E i \in 1..Len(batch) : batch[i].key = k
ValueOf(batch, k) == batch[CHOOSE i \in 1..Len(batch) : batch[i].key = k].val
\* delete batch[k]
Delete(batch, k) == SelectSeq(batch, LAMBDA e : e.key # k)
\* batch[k] = v: an existing key keeps its place, a new key goes last
Assign(batch, k, v) ==
  IF HasKey(batch, k)
    THEN [i \in 1..Len(batch) |-> IF batch[i].key = k THEN Entry(k, v) ELSE batch[i]]
    ELSE Append(batch, Entry(k, v))
\* Object.entries / structuredClone of a parameter object
EntriesOf(obj) == [i \in 1..Len(ParamKeyOrder) |-> Entry(ParamKeyOrder[i], obj[ParamKeyOrder[i]])]

\* update_engine_parameters, the validation loop: the first error, or "ok".
\* live is the object this._parameters refers to.
RECURSIVE ValidateFrom(_, _, _)
ValidateFrom(batch, live, i) ==
  IF i > Len(batch) THEN "ok"
  ELSE IF Cardinality(DOMAIN live) > 0 /\ batch[i].key \notin DOMAIN live THEN "nokey"
  ELSE IF validate_param_value(batch[i].key, batch[i].val) # "ok"
    THEN validate_param_value(batch[i].key, batch[i].val)
  ELSE ValidateFrom(batch, live, i + 1)

ValidateBatch(batch, live) == ValidateFrom(batch, live, 1)

\* An inference with the two modes exchanged.
InferLimitStrength_Swapped(batch) ==
  IF (HasKey(batch, "Skill Level") # HasKey(batch, "UCI_Elo"))
     /\ ~HasKey(batch, "UCI_LimitStrength")
    THEN IF HasKey(batch, "Skill Level")
           THEN Assign(batch, "UCI_LimitStrength", Bool(TRUE))
           ELSE Assign(batch, "UCI_LimitStrength", Bool(FALSE))
    ELSE batch

\* update_engine_parameters, the inference of UCI_LimitStrength.
InferLimitStrength(batch) ==
  IF (HasKey(batch, "Skill Level") # HasKey(batch, "UCI_Elo"))
     /\ ~HasKey(batch, "UCI_LimitStrength")
    THEN IF HasKey(batch, "Skill Level")
           THEN Assign(batch, "UCI_LimitStrength", Bool(FALSE))
           ELSE Assign(batch, "UCI_LimitStrength", Bool(TRUE))
    ELSE batch

\* A reordering that leaves the batch as the caller wrote it.
ThreadsThenHash_Kept(batch, live) == batch

\* A reordering that moves Threads and Hash to the front of the batch.
ThreadsThenHash_First(batch, live) ==
  IF HasKey(batch, "Threads")
    THEN LET hash_value == IF HasKey(batch, "Hash") THEN ValueOf(batch, "Hash")
                           ELSE live["Hash"]
         IN << Entry("Threads", ValueOf(batch, "Threads")), Entry("Hash", hash_value) >>
              \o Delete(Delete(batch, "Threads"), "Hash")
    ELSE batch

\* update_engine_parameters, the reordering: Threads and then Hash are
\* deleted and assigned again, so they become the last two entries.
ThreadsThenHash(batch, live) ==
  IF HasKey(batch, "Threads")
    THEN LET threads_value == ValueOf(batch, "Threads")
             hash_value == IF HasKey(batch, "Hash") THEN ValueOf(batch, "Hash")
                           ELSE live["Hash"]
             rest == Delete(Delete(batch, "Threads"), "Hash")
         IN Assign(Assign(rest, "Threads", threads_value), "Hash", hash_value)
    ELSE batch

\* new_param_values as the loop over Object.entries sees it.
ResolveBatch(batch, live) == ThreadsThenHash(InferLimitStrength(batch), live)


(***************************************************************************)
(* Commands written to the worker and lines read from it.                  *)
(***************************************************************************)
Cmd(c, name, val, arg) == [c |-> c, name |-> name, val |-> val, arg |-> arg]
SetOptionCmd(name, text) == Cmd("setoption", name, text, "")
IsReadyCmd == Cmd("isready", "", "", "")
UciCmd == Cmd("uci", "", "", "")
UciNewGameCmd == Cmd("ucinewgame", "", "", "")
DCmd == Cmd("d", "", "", "")
GoCmd(how) == Cmd("go", "", "", how)
PositionCmd(fen) == Cmd("position", "", "", fen)
QuitCmd == Cmd("quit", "", "", "")
EvalCmd == Cmd("eval", "", "", "")
\* go perft <depth>
PerftCmd(depth) == Cmd("perft", "", "", ToString(depth))
\* go depth 1 searchmoves <move>, and position fen <fen> moves <move>
SearchMoveCmd(move) == Cmd("go", "", move, "searchmoves")
PositionMovesCmd(fen, move) == Cmd("position", "", move, fen)

Line(k, v) == [k |-> k, v |-> v]
\* An "info ... score <type> <n> ... pv <move>" line of a search; final: its
\* depth is the depth searched to, or its nodes reach the node budget.
Info(final, type, n, pv) == [k |-> "info", v |-> type, n |-> n, pv |-> pv, final |-> final]
\* The "Final evaluation" line of eval: v is "none" when a side is in check,
\* n the evaluation in hundredths of a pawn otherwise.
Final(v, n) == [k |-> "Final evaluation", v |-> v, n |-> n]

\* The line that ends the response to a command ("" for a command the
\* worker does not answer): the terminal-condition table of the read loops.
Terminal(c) ==
  CASE c = "isready" -> "readyok"
    [] c = "uci" -> "uciok"
    [] c = "d" -> "Checkers"
    [] c = "go" -> "bestmove"
    [] c = "eval" -> "Final evaluation"
    [] c = "perft" -> "searched"
    [] OTHER -> ""

\* STARTING_POSITION_FEN, and another position, as opaque position strings.
STARTING_POSITION_FEN == "startfen"
\* The position a legal move leads to; a move the table lacks is illegal.
MoveTable ==
  << [from |-> "startfen", move |-> "e2e4", to |-> "fen_e4"],
     [from |-> "fen_e4", move |-> "e7e5", to |-> "fen_e4_e5"],
     [from |-> "fenA", move |-> "e2e4", to |-> "fenA_e4"] >>
\* Legal moves of the positions no move is made from: an en-passant
\* capture, a capture, a knight's and a pawn's move to an empty square and a
\* king's move in fenC; castling onto the rook, a capture and a king's move
\* in fenX.
OtherLegalMoves ==
  { << "fenC", "e5d6" >>, << "fenC", "c4d5" >>, << "fenC", "f5d6" >>,
    << "fenC", "e5e6" >>, << "fenC", "e1e2" >>,
    << "fenX", "f1h1" >>, << "fenX", "h1h7" >>, << "fenX", "f1e1" >> }
Legal(pos, move) ==
  \/ \E i \in 1..Len(MoveTable) : MoveTable[i].from = pos /\ MoveTable[i].move = move
  \/ << pos, move >> \in OtherLegalMoves
Apply(pos, move) ==
  IF Legal(pos, move)
    THEN MoveTable[CHOOSE i \in 1..Len(MoveTable) :
                     MoveTable[i].from = pos /\ MoveTable[i].move = move].to
    ELSE pos

(***************************************************************************)
(* Position strings.  A position is known by a name; its text is the       *)
(* sequence of its fields and of the whitespace characters between them.   *)
(***************************************************************************)
NL == "\n"

Whitespace == { " ", NL, "\t", "\r" }

Fen(board, side, castling, ep, sep) ==
  [board |-> board, side |-> side, castling |-> castling, ep |-> ep, sep |-> sep]

\* The position strings of the model: sep is the character after the board
\* field; fenA_tab is fenA with a tab there, fen_short lacks its counters;
\* in fenC a black pawn has just moved to d5, in fenX the white king is on f1
\* and a white rook on h1.
FenTable ==
  [ startfen  |-> Fen("start", "w", "KQkq", "-", " "),
    fen_e4    |-> Fen("start_e4", "b", "KQkq", "-", " "),
    fen_e4_e5 |-> Fen("start_e4_e5", "w", "KQkq", "-", " "),
    fenA      |-> Fen("A", "w", "-", "-", " "),
    fenA_e4   |-> Fen("A_e4", "b", "-", "-", " "),
    fenA_tab  |-> Fen("A", "w", "-", "-", "\t"),
    fenB      |-> Fen("B", "b", "-", "-", " "),
    fen_short |-> Fen("A", "w", "-", "-", ""),
    fenC      |-> Fen("C", "w", "-", "d6", " "),
    fenX      |-> Fen("X", "w", "KQ", "-", " ") ]

FenNames == DOMAIN FenTable

\* The text of a position string.
TextOf(pos) ==
  LET r == FenTable[pos] IN
  IF r.sep = "" THEN << r.board, " ", r.side, " ", r.castling, " ", r.ep >>
  ELSE << r.board, r.sep, r.side, " ", r.castling, " ", r.ep, " ", "0", " ", "1" >>

\* The position string with a given text.
Intern(text) == CHOOSE pos \in FenNames : TextOf(pos) = text

\* text.split(/\s+/) of a text without leading or trailing whitespace
split(text) == SelectSeq(text, LAMBDA x : x \notin Whitespace)

\* tokens.join(" ")
join(tokens) ==
  [i \in 1..(2 * Len(tokens) - 1) |-> IF i % 2 = 1 THEN tokens[(i + 1) \div 2] ELSE " "]

\* fen.includes("w"): the letter occurs in the side field only, the board,
\* castling and en-passant fields being written without it.
includes_w(pos) == \E i \in DOMAIN TextOf(pos) : TextOf(pos)[i] = "w"

\* get_fen_position on the line "Fen: <text>": splitted_text.slice(1).join(" ")
FenOfLine(pos) == Intern(join(Tail(split(<< "Fen:", " " >> \o TextOf(pos)))))

\* is_fen_syntax_valid: the regular expression asks for six fields with one
\* whitespace character between them, a board of eight rows, a side among
\* the characters of [b|w], castling rights and an en-passant square; the
\* checks after it ask for both kings and eight columns in each row.
is_fen_syntax_valid(pos) ==
  LET text == TextOf(pos) IN
  /\ Len(text) = 11
  /\ \A i \in {2, 4, 6, 8, 10} : text[i] \in Whitespace
  /\ text[1] \in {"start", "start_e4", "start_e4_e5", "A", "A_e4", "B", "C", "X"}
  /\ text[3] \in {"b", "w", "|"}
  /\ text[5] \in {"-", "KQkq", "KQ"}
  /\ text[7] \in {"-", "e3", "e6", "d6"}
  /\ Len(split(text)) = 6

\* count_lines < 17 in get_board_visual: the rows of the board drawing.
BoardLines == 17
DEFAULT_NUM_NODES == 1000000

Sessions == {"s1", "s2"}
Callers == {"c1", "c2"}
\* The objects of parameter type in the heap: the class-level constant and
\* the copy each caller holds of what get_engine_parameters returned.
CopyOf(c) == IF c = "c1" THEN "copy1" ELSE "copy2"
Refs == {"DEFAULT", "copy1", "copy2"}

VARIABLES
  heap,          \* Refs -> the contents of the object
  parameters,    \* session -> the reference this._parameters holds
  started,       \* session -> "no", "starting", "yes", "failed"
  info,          \* session -> this.info
  num_nodes,     \* session -> this._num_nodes
  turn_perspective, \* session -> this._turn_perspective
  has_quit_command_been_sent, \* session -> this._has_quit_command_been_sent
  exited,        \* session -> the worker's exitCode is not null (has_quit)
  stdin,         \* session -> commands written, not yet taken by the worker
  stdout,        \* session -> chunks the worker has emitted, not yet read
  lineBuffer,    \* session -> this.#lineBuffer, the complete lines in it
  readq,         \* session -> pending #stdoutReader.read() requests, oldest first
  inflight,      \* session -> answered commands written whose terminal line is unread
  wpos,          \* session -> the position the worker holds
  task,          \* caller -> the call it is in (or was last in)
  held,          \* caller -> the reference get_engine_parameters returned to it
  nops,          \* the number of operations invoked so far
  rl             \* the line reader followed byte by byte (SpecReadline)

vars == << heap, parameters, started, info, num_nodes, turn_perspective,
           has_quit_command_been_sent, exited, stdin, stdout, lineBuffer,
           readq, inflight, wpos, task, held, nops, rl >>

\* The most operations the callers invoke in one behaviour.
MaxOps == 3

IdleTask ==
  [op |-> "idle", s |-> "s1", pc |-> "done", phase |-> "", result |-> "",
   batch |-> << >>, todo |-> << >>, log |-> << >>, pre |-> DEFAULT_STOCKFISH_PARAMS,
   fen |-> "", lines |-> << >>, count |-> 0, n |-> 0, nodes |-> 0,
   old_multipv |-> Num(0), old_num_nodes |-> 0, defined |-> TRUE,
   square |-> << >>, moves |-> << >>, movelist |-> << >>,
   info0 |-> "", num_nodes0 |-> 0, old_self_info |-> "", named |-> "", ret |-> "",
   home |-> "s1", arg |-> "", compare |-> 0, value |-> 0, isnull |-> FALSE,
   etype |-> "", top_moves |-> << >>, move |-> << >>,
   starting_square_piece |-> "", ending_square_piece |-> "",
   move_possibilities |-> << >>, version_text |-> << >>,
   version |-> [major |-> Num(0), minor |-> Num(0), patch |-> << >>, sha |-> << >>,
               is_dev_build |-> FALSE, text |-> << >>]]


(***************************************************************************)
(* A call runs from the point it is resumed to its next suspension in one  *)
(* step (JavaScript runs a continuation to completion, and one that finds  *)
(* a complete line in #lineBuffer is not suspended for input).  The        *)
(* machine m is the call's view while it runs: its own record m.t, and the *)
(* fields of its session and of the heap that it may change.               *)
(***************************************************************************)
Machine(c, s, t) ==
  [me |-> c, s |-> s, t |-> t, stdin |-> stdin[s], buf |-> lineBuffer[s],
   readq |-> readq[s], inflight |-> inflight[s], heap |-> heap,
   info |-> info[s], num_nodes |-> num_nodes[s],
   quit |-> has_quit_command_been_sent[s], exited |-> exited[s],
   live |-> parameters[s], tp |-> turn_perspective[s]]

Live(m) == m.heap[m.live]
Return(m) == [m EXCEPT !.t.pc = "done", !.t.result = "ok"]

\* this.#stockfish.kill(): the signal is what the worker meets next, ahead
\* of any command it has not taken.
KillSignal == Cmd("kill", "", "", "")

\* kill_stockfish up to its await of the worker's exit
kill_stockfish(m) ==
  IF m.exited THEN Return(m)
  ELSE [m EXCEPT !.stdin = << KillSignal >>, !.t.pc = "exit"]

\* The call is in Stockfish.start, on its own or as the first part of
\* is_fen_valid; InTry: it is in the try block of is_fen_valid.
InStart(t) == t.op = "start" \/ (t.op = "is_fen_valid" /\ t.phase \notin {"tmpfen", "tmpgo"})
InTry(t) == t.op = "is_fen_valid" /\ t.phase = "tmpgo"

\* An error thrown in the call: is_fen_valid catches what its try block
\* throws, returns false and kills the temporary worker in its finally.
Throw(m, err) ==
  IF InTry(m.t) THEN kill_stockfish([m EXCEPT !.t.ret = "false"])
  ELSE [m EXCEPT !.t.pc = "done", !.t.result = err]

\* String(value), as _set_option puts it in the command text
String(v) ==
  CASE typeof(v) = "number" -> IF IsNaN(v) THEN "NaN" ELSE ToString(v.n)
    [] typeof(v) = "boolean" -> IF v.b THEN "true" ELSE "false"
    [] OTHER -> v.s

\* A #put that does not look at _has_quit_command_been_sent.
put_AfterQuit(m, command) ==
  IF m.exited THEN m
  ELSE [m EXCEPT !.stdin = Append(@, command),
                 !.t.log = Append(@, command),
                 !.quit = @ \/ (command.c = "quit")]

\* A #put that does not look at has_quit.
put_AfterExit(m, command) ==
  IF ~m.quit
    THEN [m EXCEPT !.stdin = Append(@, command),
                   !.t.log = Append(@, command),
                   !.quit = (command.c = "quit")]
    ELSE m

\* #put: nothing is written once the worker has exited or quit was sent.
put(m, command) ==
  IF m.exited THEN m
  ELSE IF ~m.quit
    THEN [m EXCEPT !.stdin = Append(@, command),
                   !.t.log = Append(@, command),
                   !.inflight = IF Terminal(command.c) # "" THEN Append(@, command.c) ELSE @,
                   !.quit = (command.c = "quit")]
    ELSE m

\* A line handed to a reader: if it ends the oldest unanswered command,
\* that command is no longer awaiting its terminal line.
Unread(fl, line) ==
  IF fl # << >> /\ Terminal(Head(fl)) = line.k THEN Tail(fl) ELSE fl

RECURSIVE UnreadAll(_, _)
UnreadAll(fl, lines) ==
  IF lines = << >> THEN fl ELSE UnreadAll(Unread(fl, Head(lines)), Tail(lines))

\* _set_option up to its await of #isReady; the call goes on at pc.
set_option(m, name, value, update_parameters_attribute, pc) ==
  IF validate_param_value(name, value) # "ok"
    THEN Throw(m, validate_param_value(name, value))
    ELSE LET m1 == put(m, SetOptionCmd(name, String(value)))
             m2 == IF update_parameters_attribute
                     THEN [m1 EXCEPT !.heap[m.live][name] = value]
                     ELSE m1
         IN put([m2 EXCEPT !.t.pc = pc], IsReadyCmd)

\* The #isReady loop of a _set_option that was called without await: it
\* takes lines up to the first readyok; with none buffered it leaves a
\* read request of its own pending.
DetachedRead(m) ==
  LET hits == { i \in 1..Len(m.buf) : m.buf[i].k = "readyok" } IN
  IF hits # {}
    THEN LET i == CHOOSE j \in hits : \A k \in hits : j <= k IN
         [m EXCEPT !.buf = SubSeq(m.buf, i + 1, Len(m.buf)),
                   !.inflight = UnreadAll(@, SubSeq(m.buf, 1, i))]
    ELSE [m EXCEPT !.buf = << >>,
                   !.inflight = UnreadAll(@, m.buf),
                   !.readq = Append(@, "detached")]

\* this._set_option(name, value) without await (get_top_moves): what it
\* does before the caller goes on; its rejection reaches nobody.
detached_set_option(m, name, value) ==
  IF validate_param_value(name, value) # "ok" THEN m
  ELSE LET m1 == put(put(m, SetOptionCmd(name, String(value))), IsReadyCmd)
           m2 == [m1 EXCEPT !.heap[m.live][name] = value]
       IN IF m2.exited THEN m2 ELSE DetachedRead(m2)

\* A #prepare_for_new_position that leaves this.info as it is.
PositionPrepared_Kept(m) == m

\* #prepare_for_new_position after its #isReady: this.info = ""
PositionPrepared(m) == [m EXCEPT !.info = ""]

\* A #prepare_for_new_position that sends ucinewgame whatever it is told.
prepare_for_new_position_Always(m, send_ucinewgame_token) ==
  put(put([m EXCEPT !.t.pc = "prep"], UciNewGameCmd), IsReadyCmd)

\* #prepare_for_new_position up to its await of #isReady
prepare_for_new_position(m, send_ucinewgame_token) ==
  put(IF send_ucinewgame_token THEN put([m EXCEPT !.t.pc = "prep"], UciNewGameCmd)
      ELSE [m EXCEPT !.t.pc = "prep"], IsReadyCmd)

\* get_fen_position up to its first #readline
get_fen_position(m) == put([m EXCEPT !.t.pc = "fen"], DCmd)

\* update_engine_parameters: the loop over Object.entries(new_param_values)
\* from its next entry, and the position query that follows the loop.
NextOption(m) ==
  IF m.t.todo = << >> THEN get_fen_position(m)
  ELSE LET e == Head(m.t.todo) IN
       set_option([m EXCEPT !.t.todo = Tail(@)], e.key, e.val, TRUE, "ready")

\* update_engine_parameters(partial) up to its first await
update_engine_parameters(m, partial) ==
  LET v == ValidateBatch(partial, Live(m)) IN
  IF v # "ok" THEN Throw(m, v)
  ELSE NextOption([m EXCEPT !.t.todo = ResolveBatch(partial, Live(m))])

\* Stockfish.start after reset_engine_parameters: the update with the
\* caller's parameters, then the probe for UCI_ShowWDL.
StartWdl(m) == put([m EXCEPT !.t.phase = "wdl", !.t.pc = "wdl"], UciCmd)

StartUpdate(m) ==
  IF ~m.t.defined THEN StartWdl(m)
  ELSE update_engine_parameters([m EXCEPT !.t.phase = "update"], m.t.batch)

\* What follows the return of update_engine_parameters.
UpdateDone(m) ==
  IF InStart(m.t)
    THEN IF m.t.phase = "reset" THEN StartUpdate(m) ELSE StartWdl(m)
    ELSE Return(m)

\* get_top_moves up to its await of the search output
get_top_moves(m, num_top_moves, nodes) ==
  IF num_top_moves <= 0 THEN Throw(m, "num_top_moves")
  ELSE LET m0 == [m EXCEPT !.t.old_multipv = Live(m)["MultiPV"],
                           !.t.old_num_nodes = m.num_nodes]
           m1 == IF StrictlyUnequal(Num(num_top_moves), Live(m0)["MultiPV"])
                   THEN detached_set_option(m0, "MultiPV", Num(num_top_moves))
                   ELSE m0
           m2 == IF nodes = 0 THEN put(m1, GoCmd("depth"))
                 ELSE put([m1 EXCEPT !.num_nodes = nodes], GoCmd("nodes"))
       IN [m2 EXCEPT !.t.pc = "go"]

\* A get_top_moves that returns without putting anything back.
FinishTopMoves_NoRestore(m) == Return(m)

\* get_top_moves after the parse: MultiPV and the node budget are put back.
FinishTopMoves(m) ==
  LET m1 == IF StrictlyUnequal(m.t.old_multipv, Live(m)["MultiPV"])
              THEN detached_set_option(m, "MultiPV", m.t.old_multipv)
              ELSE m
  IN Return([m1 EXCEPT !.num_nodes = m.t.old_num_nodes])

\* The sign the scores of a call are multiplied by:
\* first || fen.includes("w") ? 1 : -1, where first is get_turn_perspective()
\* for a search score and !get_turn_perspective() for the static evaluation.
compare_One(first, w) == 1
compare(first, w) == IF first \/ w THEN 1 ELSE -1

\* null, and a number, as a value a call returns
Null == [null |-> TRUE, n |-> 0]
Some(n) == [null |-> FALSE, n |-> n]

\* The loop of get_top_moves over lines.toReversed(), from line i down,
\* top_moves being what is collected so far: a bestmove line is passed
\* over unless it says (none); a line that is not of the final depth or
\* node count ends the loop; any other is put in front.
RECURSIVE top_moves_from(_, _, _, _)
top_moves_from(lines, i, perspective, top_moves) ==
  IF i = 0 THEN top_moves
  ELSE LET line == lines[i] IN
       IF line.k = "bestmove"
         THEN IF line.v = "(none)" THEN << >>
              ELSE top_moves_from(lines, i - 1, perspective, top_moves)
       ELSE IF line.k # "info" THEN top_moves
       ELSE IF ~line.final THEN top_moves
       ELSE top_moves_from(lines, i - 1, perspective,
              << [Move |-> line.pv,
                  Centipawn |-> IF line.v = "cp" THEN Some(line.n * perspective) ELSE Null,
                  Mate |-> IF line.v = "mate" THEN Some(line.n * perspective) ELSE Null] >>
              \o top_moves)

\* get_top_moves after the search output, perspective being computed: the
\* parse, and then the values remembered are put back.
TopMovesRead(m, perspective) ==
  FinishTopMoves([m EXCEPT !.t.compare = perspective,
                           !.t.top_moves = top_moves_from(m.t.lines, Len(m.t.lines),
                                                          perspective, << >>)])

\* #go() and the await of the search output in get_evaluation
EvaluationSearch(m) == put([m EXCEPT !.t.pc = "eval_go", !.t.lines = << >>], GoCmd("depth"))

\* get_evaluation() up to its first await: the position is asked for only
\* when get_turn_perspective() is false.
get_evaluation(m) ==
  IF m.tp THEN EvaluationSearch([m EXCEPT !.t.compare = compare(TRUE, FALSE)])
  ELSE get_fen_position(m)

\* lines.filter((line) => line.startsWith("info")).at(-1)
LastInfo(lines) ==
  LET hits == { i \in 1..Len(lines) : lines[i].k = "info" } IN
  lines[CHOOSE i \in hits : \A j \in hits : j <= i]

\* A get_evaluation that returns the worker's value as it is.
EvaluationRead_Raw(m) ==
  Return([m EXCEPT !.t.etype = LastInfo(m.t.lines).v,
                   !.t.value = LastInfo(m.t.lines).n])

\* get_evaluation after the search output: the type and the value after
\* "score" in the last info line, the value multiplied by compare.
EvaluationRead(m) ==
  Return([m EXCEPT !.t.etype = LastInfo(m.t.lines).v,
                   !.t.value = LastInfo(m.t.lines).n * m.t.compare])

\* #put("eval") and the loop of get_static_eval
StaticEvalAsked(m) == put([m EXCEPT !.t.pc = "static"], EvalCmd)

\* get_static_eval() up to its first await: the position is asked for only
\* when get_turn_perspective() is true.
get_static_eval(m) ==
  IF ~m.tp THEN StaticEvalAsked([m EXCEPT !.t.compare = compare(TRUE, FALSE)])
  ELSE get_fen_position(m)

\* get_static_eval at the "Final evaluation" line: null for "none", or the
\* number multiplied by compare.
StaticEvalRead(m, line) ==
  IF line.v = "none" THEN Return([m EXCEPT !.t.isnull = TRUE])
  ELSE Return([m EXCEPT !.t.value = line.n * m.t.compare])

\* get_perft(depth) up to its first #readline
get_perft(m, depth) ==
  IF depth < 1 THEN Throw(m, "depth")
  ELSE put([m EXCEPT !.t.pc = "perft", !.t.move_possibilities = << >>, !.t.lines = << >>],
           PerftCmd(depth))

\* line.split(":") of a line of the loop: the move and parseInt of the
\* count; a line without ":" is all move, and its count is NaN.
PerftEntry(line) ==
  IF line.k = "move" THEN [move |-> line.v, n |-> line.n, nan |-> FALSE]
  ELSE [move |-> line.k, n |-> 0, nan |-> TRUE]

\* A get_perft that lets a repeated move replace the count it has.
PerftLine_Overwrite(m, line) ==
  IF line.k = "searched" THEN Return([m EXCEPT !.t.value = line.n])
  ELSE [m EXCEPT !.t.move_possibilities =
          SelectSeq(@, LAMBDA e : e.move # PerftEntry(line).move) \o << PerftEntry(line) >>]

\* One line in the loop of get_perft: the line with "searched" gives the
\* total and ends the loop; of any other the move and the count are kept,
\* and a move already held is an error.
PerftLine(m, line) ==
  IF line.k = "searched" THEN Return([m EXCEPT !.t.value = line.n])
  ELSE IF \E i \in 1..Len(m.t.move_possibilities) :
            m.t.move_possibilities[i].move = PerftEntry(line).move
    THEN Throw(m, "duplicate")
  ELSE [m EXCEPT !.t.move_possibilities = Append(@, PerftEntry(line))]

\* set_fen_position(fen_position, send_ucinewgame_token) up to its await
set_fen_position(m, fen_position, send_ucinewgame_token) ==
  prepare_for_new_position([m EXCEPT !.t.fen = fen_position], send_ucinewgame_token)

(***************************************************************************)
(* Square names are sequences of characters; characters compare by their   *)
(* code units, as JavaScript strings do.                                   *)
(***************************************************************************)
CharCode(ch) ==
  CASE ch = "0" -> 48 [] ch = "1" -> 49 [] ch = "2" -> 50 [] ch = "3" -> 51
    [] ch = "4" -> 52 [] ch = "5" -> 53 [] ch = "6" -> 54 [] ch = "7" -> 55
    [] ch = "8" -> 56 [] ch = "9" -> 57 [] ch = "A" -> 65 [] ch = "E" -> 69
    [] ch = "H" -> 72 [] ch = "I" -> 73 [] ch = "a" -> 97 [] ch = "b" -> 98
    [] ch = "c" -> 99 [] ch = "d" -> 100 [] ch = "e" -> 101 [] ch = "f" -> 102
    [] ch = "g" -> 103 [] ch = "h" -> 104 [] ch = "i" -> 105

\* String.prototype.toLowerCase on one character, as its code
LowerCode(ch) ==
  IF CharCode(ch) >= 65 /\ CharCode(ch) <= 90 THEN CharCode(ch) + 32 ELSE CharCode(ch)

\* get_what_is_on_square: the argument passes both checks
SquareAccepted(square) ==
  /\ Len(square) = 2
  /\ ~ \/ LowerCode(square[1]) < CharCode("a")
       \/ LowerCode(square[1]) > CharCode("h")
       \/ CharCode(square[2]) < CharCode("1")
       \/ CharCode(square[2]) > CharCode("8")

\* get_what_is_on_square up to the first #readline of get_board_visual
get_what_is_on_square(m, square) ==
  IF ~SquareAccepted(square) THEN Throw(m, "square")
  ELSE put([m EXCEPT !.t.pc = "board", !.t.count = 0, !.t.square = square,
                      !.t.lines = << >>], DCmd)

\* get_what_is_on_square after get_board_visual: the row of the rank is
\* line 17 - 2 * rank_num of the drawing, counted from 0, and the piece of
\* file k (a = 0) is its character 2 + 4 * k, which is cell k + 1 of the
\* row; a space is null, a piece letter is the piece.
PieceOn(board_rep_lines, square) ==
  LET rank_num == CharCode(square[2]) - CharCode("0")
      rank_visual == board_rep_lines[(17 - 2 * rank_num) + 1]
      piece_as_char == rank_visual.cells[(LowerCode(square[1]) - CharCode("a")) + 1]
  IN IF piece_as_char = " " THEN "null" ELSE piece_as_char

\* The Capture values
DIRECT_CAPTURE == "direct capture"
EN_PASSANT == "en passant"
NO_CAPTURE == "no capture"

\* Array.prototype.includes compares an array with the elements by identity:
\* the elements of castling_pieces are two arrays made in the call, and the
\* argument is a third.
castling_pieces == { "castling_pieces[0]", "castling_pieces[1]" }
includes(array, element) == element \in array

\* will_move_be_a_capture after both squares are read, up to its return or
\* its await of get_fen_position
Classify(m) ==
  IF m.t.ending_square_piece # "null"
    THEN IF ~Live(m)["UCI_Chess960"].b THEN Return([m EXCEPT !.t.ret = DIRECT_CAPTURE])
         ELSE IF includes(castling_pieces, "[starting_square_piece, ending_square_piece]")
           THEN Return([m EXCEPT !.t.ret = NO_CAPTURE])
         ELSE Return([m EXCEPT !.t.ret = DIRECT_CAPTURE])
    ELSE get_fen_position([m EXCEPT !.t.phase = "ep"])

\* An en-passant check that does not look at the moving piece.
EnPassantChecked_AnyPiece(m) ==
  IF m.t.move[3] \o m.t.move[4] = split(TextOf(m.t.fen))[4]
    THEN Return([m EXCEPT !.t.ret = EN_PASSANT])
    ELSE Return([m EXCEPT !.t.ret = NO_CAPTURE])

\* will_move_be_a_capture after get_fen_position: the move's destination
\* against field 3 of the position string, and the moving piece.
EnPassantChecked(m) ==
  IF /\ m.t.move[3] \o m.t.move[4] = split(TextOf(m.t.fen))[4]
     /\ m.t.starting_square_piece \in {"P", "p"}
    THEN Return([m EXCEPT !.t.ret = EN_PASSANT])
    ELSE Return([m EXCEPT !.t.ret = NO_CAPTURE])

\* What follows the return of get_what_is_on_square.
SquareRead(m) ==
  LET piece == PieceOn(m.t.lines, m.t.square) IN
  IF m.t.op # "will_move_be_a_capture" THEN Return([m EXCEPT !.t.ret = piece])
  ELSE IF m.t.phase = "from"
    THEN get_what_is_on_square([m EXCEPT !.t.starting_square_piece = piece, !.t.phase = "to"],
                               << m.t.move[3], m.t.move[4] >>)
  ELSE Classify([m EXCEPT !.t.ending_square_piece = piece])

\* will_move_be_a_capture(move_value) up to its first await, in
\* is_move_correct
will_move_be_a_capture(m, move_value) ==
  LET text == move_value[1] \o move_value[2] \o move_value[3] \o move_value[4] IN
  put([m EXCEPT !.t.pc = "go1", !.t.lines = << >>, !.t.old_self_info = m.info,
                !.t.moves = << text >>, !.t.move = move_value],
      SearchMoveCmd(text))


\* is_move_correct(move_value) up to its first await
is_move_correct(m, move_value) ==
  put([m EXCEPT !.t.pc = "go1", !.t.lines = << >>, !.t.old_self_info = m.info,
                !.t.moves = << move_value >>],
      SearchMoveCmd(move_value))

\* The call is in make_moves_from_current_position, on its own or as the
\* second half of set_position.
InMoves(m) ==
  \/ m.t.op = "make_moves_from_current_position"
  \/ (m.t.op = "set_position" /\ m.t.phase = "moves")

\* lines.at(-2) of the search output, the bestmove line being the last
InfoLine(lines) == IF lines = << >> THEN "undefined" ELSE lines[Len(lines)].k

\* make_moves_from_current_position: the loop over the moves from its next
\* move, which begins with is_move_correct: this.info is kept aside and the
\* search is started.
NextMove(m) ==
  IF m.t.moves = << >> THEN Return(m)
  ELSE put([m EXCEPT !.t.pc = "go1", !.t.lines = << >>, !.t.old_self_info = m.info],
           SearchMoveCmd(Head(m.t.moves)))

\* A make_moves_from_current_position that does not look at its argument.
make_moves_from_current_position_NoGuard(m, defined, moves) ==
  prepare_for_new_position([m EXCEPT !.t.moves = moves], FALSE)

\* make_moves_from_current_position(moves) up to its first await; defined
\* is FALSE for a call without argument (!moves?.length).
make_moves_from_current_position(m, defined, moves) ==
  IF ~defined \/ Len(moves) = 0 THEN Return(m)
  ELSE prepare_for_new_position([m EXCEPT !.t.moves = moves], FALSE)

\* An is_move_correct that is true of any move the search returns.
best_move_is_AnyMove(best_move, move_value) == best_move # "null"

\* best_move === move_value of is_move_correct
best_move_is(best_move, move_value) == best_move = move_value

\* An is_move_correct that finds every move correct.
MoveChecked_Unchecked(m, bestmove_line) ==
  get_fen_position([m EXCEPT !.info = m.t.old_self_info])

\* is_move_correct after the search output: #get_best_move_from_sf_popen_process
\* sets this.info, best_move === move_value is taken, this.info is put back;
\* then the caller throws, naming the move, or asks for the position.
MoveChecked(m, bestmove_line) ==
  LET best_move == IF bestmove_line.v = "(none)" THEN "null" ELSE bestmove_line.v
      m1 == [m EXCEPT !.info = InfoLine(m.t.lines)]
      m2 == [m1 EXCEPT !.info = m.t.old_self_info]
  IN IF m.t.op = "is_move_correct"
       THEN Return([m2 EXCEPT !.t.lines = Append(@, bestmove_line),
                              !.t.ret = IF best_move_is(best_move, Head(m.t.moves))
                                          THEN "true" ELSE "false"])
     ELSE IF m.t.op = "will_move_be_a_capture"
       THEN IF ~best_move_is(best_move, Head(m.t.moves)) THEN Throw(m2, "notvalid")
            ELSE get_what_is_on_square([m2 EXCEPT !.t.phase = "from"],
                                       << m.t.move[1], m.t.move[2] >>)
     ELSE IF ~best_move_is(best_move, Head(m.t.moves))
       THEN Throw([m2 EXCEPT !.t.named = Head(m.t.moves)], "cannotmove")
       ELSE get_fen_position(m2)

\* What follows the position command of set_fen_position: set_position goes
\* on with its moves, is_fen_valid with its search on the temporary
\* session, update_engine_parameters and start with their rest.
PositionSet(m) ==
  IF m.t.op = "set_position"
    THEN make_moves_from_current_position([m EXCEPT !.t.phase = "moves"],
                                          m.t.defined, m.t.movelist)
  ELSE IF m.t.op = "is_fen_valid" /\ m.t.phase = "tmpfen"
    THEN put([m EXCEPT !.t.phase = "tmpgo", !.t.pc = "best", !.t.lines = << >>],
             GoCmd("depth"))
  ELSE UpdateDone(m)

\* set_position(moves) up to its first await
set_position(m) ==
  set_fen_position([m EXCEPT !.t.phase = "setfen"], STARTING_POSITION_FEN, TRUE)

\* get_best_move() up to its await of the search output
get_best_move(m) == put([m EXCEPT !.t.pc = "best", !.t.lines = << >>], GoCmd("depth"))

\* #get_best_move_from_sf_popen_process after the search output
BestMoveRead(m, bestmove_line) ==
  LET best_move == IF bestmove_line.v = "(none)" THEN "null" ELSE bestmove_line.v
      m1 == [m EXCEPT !.info = InfoLine(m.t.lines)]
  IN IF m.t.op = "is_fen_valid"
       THEN kill_stockfish([m1 EXCEPT !.t.ret = IF best_move # "null" THEN "true" ELSE "false"])
       ELSE Return([m1 EXCEPT !.t.ret = best_move])

\* Stockfish.start has returned: is_fen_valid goes on with
\* temp_sf.set_fen_position(fen, false).
StartDone(m) ==
  IF m.t.op = "is_fen_valid"
    THEN set_fen_position([m EXCEPT !.t.phase = "tmpfen"], m.t.arg, FALSE)
    ELSE Return(m)

\* A position query after which the position is set with ucinewgame.
GotFen_NewGame(m) ==
  CASE m.t.op = "get_fen_position" -> Return(m)
    [] m.t.op = "get_top_moves" -> TopMovesRead(m, compare(FALSE, includes_w(m.t.fen)))
    [] m.t.op = "get_evaluation" ->
         EvaluationSearch([m EXCEPT !.t.compare = compare(FALSE, includes_w(m.t.fen))])
    [] m.t.op = "get_static_eval" ->
         StaticEvalAsked([m EXCEPT !.t.compare = compare(FALSE, includes_w(m.t.fen))])
    [] m.t.op = "will_move_be_a_capture" -> EnPassantChecked(m)
    [] InMoves(m) ->
         NextMove([put(m, PositionMovesCmd(m.t.fen, Head(m.t.moves)))
                     EXCEPT !.t.moves = Tail(@)])
    [] OTHER -> prepare_for_new_position(m, TRUE)

\* What follows the return of get_fen_position, by the caller it returns to.
GotFen(m) ==
  CASE m.t.op = "get_fen_position" -> Return(m)
    [] m.t.op = "get_top_moves" -> TopMovesRead(m, compare(FALSE, includes_w(m.t.fen)))
    [] m.t.op = "get_evaluation" ->
         EvaluationSearch([m EXCEPT !.t.compare = compare(FALSE, includes_w(m.t.fen))])
    [] m.t.op = "get_static_eval" ->
         StaticEvalAsked([m EXCEPT !.t.compare = compare(FALSE, includes_w(m.t.fen))])
    [] m.t.op = "will_move_be_a_capture" -> EnPassantChecked(m)
    [] InMoves(m) ->
         NextMove([put(m, PositionMovesCmd(m.t.fen, Head(m.t.moves)))
                     EXCEPT !.t.moves = Tail(@)])
    [] OTHER -> prepare_for_new_position(m, FALSE)   \* set_fen_position(fen, false)

(***************************************************************************)
(* One line handed to the call by #readline, by the loop the call is in.   *)
(***************************************************************************)
Step(m, line) ==
  CASE m.t.pc = "version" ->      \* #set_stockfish_version
         IF line.k = "idname" THEN [m EXCEPT !.t.pc = "uciok", !.t.phase = "version"] ELSE m
    [] m.t.pc = "uciok" ->        \* #discard_remaining_stdout_lines("uciok")
         IF line.k # "uciok" THEN m
         ELSE IF m.t.phase = "version"
           THEN put([m EXCEPT !.t.phase = "uci"], UciCmd)
         ELSE IF m.t.phase = "uci"
           THEN update_engine_parameters(
                  [m EXCEPT !.t.phase = "reset", !.num_nodes = DEFAULT_NUM_NODES],
                  EntriesOf(m.heap["DEFAULT"]))
         ELSE set_option([m EXCEPT !.t.phase = "showwdl"], "UCI_ShowWDL", Bool(TRUE), FALSE, "ready")
    [] m.t.pc = "wdl" ->          \* #does_current_engine_version_have_wdl_option
         IF line.k = "uciok" THEN Throw(m, "unsupported")
         ELSE IF line.k = "option" /\ line.v = "UCI_ShowWDL" THEN [m EXCEPT !.t.pc = "uciok"]
         ELSE m
    [] m.t.pc = "ready" ->        \* #isReady in _set_option
         IF line.k # "readyok" THEN m
         ELSE IF m.t.phase = "showwdl"
           THEN prepare_for_new_position([m EXCEPT !.t.phase = "final"], TRUE)
         ELSE NextOption(m)
    [] m.t.pc = "fen" ->          \* get_fen_position
         IF line.k = "Fen" THEN [m EXCEPT !.t.fen = FenOfLine(line.v), !.t.pc = "fen_tail"] ELSE m
    [] m.t.pc = "fen_tail" ->     \* #discard_remaining_stdout_lines("Checkers")
         IF line.k = "Checkers" THEN GotFen(m) ELSE m
    [] m.t.pc = "prep" ->         \* #isReady in #prepare_for_new_position
         IF line.k # "readyok" THEN m
         ELSE IF m.t.phase = "final" THEN StartDone(PositionPrepared(m))
         ELSE IF InMoves(m) THEN NextMove(PositionPrepared(m))
         ELSE PositionSet(put(PositionPrepared(m), PositionCmd(m.t.fen)))
    [] m.t.pc = "go" ->           \* #get_sf_go_command_output
         IF line.k # "bestmove" THEN [m EXCEPT !.t.lines = Append(@, line)]
         ELSE IF m.tp THEN TopMovesRead([m EXCEPT !.t.lines = Append(@, line)],
                                        compare(TRUE, FALSE))
         ELSE get_fen_position([m EXCEPT !.t.lines = Append(@, line)])
    [] m.t.pc = "go1" ->          \* #get_sf_go_command_output in is_move_correct
         IF line.k # "bestmove" THEN [m EXCEPT !.t.lines = Append(@, line)]
         ELSE MoveChecked(m, line)
    [] m.t.pc = "best" ->         \* #get_sf_go_command_output in get_best_move
         IF line.k # "bestmove" THEN [m EXCEPT !.t.lines = Append(@, line)]
         ELSE BestMoveRead(m, line)
    [] m.t.pc = "eval_go" ->      \* #get_sf_go_command_output in get_evaluation
         IF line.k # "bestmove" THEN [m EXCEPT !.t.lines = Append(@, line)]
         ELSE EvaluationRead([m EXCEPT !.t.lines = Append(@, line)])
    [] m.t.pc = "perft" ->        \* the loop of get_perft
         PerftLine([m EXCEPT !.t.lines = Append(@, line)], line)
    [] m.t.pc = "static" ->       \* the loop of get_static_eval
         IF line.k = "Final evaluation" THEN StaticEvalRead(m, line) ELSE m
    [] m.t.pc = "board" ->        \* get_board_visual, the rows of the drawing
         IF line.k # "grid" THEN m
         ELSE IF m.t.count + 1 < BoardLines
           THEN [m EXCEPT !.t.count = @ + 1, !.t.lines = Append(@, line)]
         ELSE [m EXCEPT !.t.count = @ + 1, !.t.lines = Append(@, line), !.t.pc = "files"]
    [] m.t.pc = "files" ->        \* get_board_visual, the line of file letters
         [m EXCEPT !.t.pc = "board_tail"]
    [] m.t.pc = "board_tail" ->   \* #discard_remaining_stdout_lines("Checkers")
         IF line.k = "Checkers" THEN SquareRead(m) ELSE m
    [] OTHER -> m

\* #readline, and the call going on with each line it returns, until the
\* call completes or #readline has to wait for a chunk.
RECURSIVE Run(_)
Run(m) ==
  IF m.t.pc = "done" THEN m
  ELSE IF m.exited THEN Throw(m, "crashed")
  ELSE IF m.buf # << >>
    THEN Run(Step([m EXCEPT !.buf = Tail(@), !.inflight = Unread(@, Head(m.buf))],
                  Head(m.buf)))
  ELSE [m EXCEPT !.readq = Append(@, m.me)]

\* #readline resumed by a chunk: the chunk joins #lineBuffer and the first
\* line is returned.
Resume(m, chunk) ==
  LET b == m.buf \o chunk IN
  Run(Step([m EXCEPT !.buf = Tail(b), !.inflight = Unread(@, Head(b))], Head(b)))


\* quit_stockfish up to its await of the worker's exit
quit_stockfish(m) ==
  IF m.exited THEN Return(m)
  ELSE [put(m, QuitCmd) EXCEPT !.t.pc = "exit"]

\* An end of the stream that is an error whether or not quit was sent.
ReadDone_NoDrain(m) ==
  IF m.buf # << >>
    THEN LET line == IF Len(m.buf) = 1 THEN Head(m.buf) ELSE Line("joined", "") IN
         Run(Step([m EXCEPT !.buf = << >>, !.inflight = UnreadAll(@, m.buf)], line))
  ELSE Throw(m, "streamended")

\* #readline resumed by the end of the stream: what is left in #lineBuffer
\* is returned as one line (one buffered line is that line; several come
\* back joined); with nothing left, "" after quit and an error otherwise.
ReadDone(m) ==
  IF m.buf # << >>
    THEN LET line == IF Len(m.buf) = 1 THEN Head(m.buf) ELSE Line("joined", "") IN
         Run(Step([m EXCEPT !.buf = << >>, !.inflight = UnreadAll(@, m.buf)], line))
  ELSE IF m.quit THEN Run(Step(m, Line("", "")))
  ELSE Throw(m, "streamended")

(***************************************************************************)
(* #readline followed byte by byte.  The sessions above keep #lineBuffer   *)
(* as the complete lines in it; here it is the decoded text itself, and    *)
(* the worker's output reaches it in chunks cut at any byte.               *)
(***************************************************************************)

\* The longest output the worker writes.
MaxOutput == 5

\* The bytes of the worker's output: a letter, a space, a line feed.
Bytes == { 97, 32, 10 }

\* TextDecoder.decode of single-byte text: each byte gives its character.
CharOf(b) == IF b = 10 THEN NL ELSE IF b = 32 THEN " " ELSE "a"

Decode(bytes) == [i \in 1..Len(bytes) |-> CharOf(bytes[i])]

\* String.prototype.indexOf, counted from 1: 0 when the character is absent.
indexOf(text, ch) ==
  IF \E i \in 1..Len(text) : text[i] = ch
  THEN CHOOSE i \in 1..Len(text) : text[i] = ch /\ \A j \in 1..(i - 1) : text[j] # ch
  ELSE 0

RECURSIVE trimStart(_)
trimStart(text) ==
  IF text # << >> /\ Head(text) \in Whitespace THEN trimStart(Tail(text)) ELSE text

RECURSIVE trimEnd(_)
trimEnd(text) ==
  IF text # << >> /\ text[Len(text)] \in Whitespace
  THEN trimEnd(SubSeq(text, 1, Len(text) - 1))
  ELSE text

\* String.prototype.trim.
trim(text) == trimEnd(trimStart(text))

Accumulate_Replace(buffer, chunk) == chunk

\* this.#lineBuffer += decoded chunk.
Accumulate(buffer, chunk) == buffer \o chunk

\* The reader before its first read: out is all the worker writes, pos the
\* bytes handed over so far, chunks their number, got the values the
\* read_line calls have returned, last how the last call ended at the end of
\* the stream.
Reader(out, quit) ==
  [out |-> out, quit |-> quit, pos |-> 0, chunks |-> 0, buf |-> << >>,
   got |-> << >>, last |-> "none"]

(***************************************************************************)
(* The state after the class is loaded: no session is started.             *)
(***************************************************************************)
NoSession ==
  /\ heap = [r \in Refs |-> DEFAULT_STOCKFISH_PARAMS]
  /\ parameters = [s \in Sessions |-> "DEFAULT"]
  /\ started = [s \in Sessions |-> "no"]
  /\ info = [s \in Sessions |-> ""]
  /\ num_nodes = [s \in Sessions |-> DEFAULT_NUM_NODES]
  /\ turn_perspective = [s \in Sessions |-> TRUE]
  /\ has_quit_command_been_sent = [s \in Sessions |-> FALSE]
  /\ exited = [s \in Sessions |-> FALSE]
  /\ stdin = [s \in Sessions |-> << >>]
  /\ stdout = [s \in Sessions |-> << >>]
  /\ lineBuffer = [s \in Sessions |-> << >>]
  /\ readq = [s \in Sessions |-> << >>]
  /\ inflight = [s \in Sessions |-> << >>]
  /\ wpos = [s \in Sessions |-> STARTING_POSITION_FEN]
  /\ task = [c \in Callers |-> IdleTask]
  /\ held = [c \in Callers |-> "none"]
  /\ nops = 0

Init == NoSession /\ rl = Reader(<< >>, FALSE)

\* The machine's session fields and the call's record become the state.
Commit(m) ==
  /\ task' = [task EXCEPT ![m.me] = m.t]
  /\ stdin' = [stdin EXCEPT ![m.s] = m.stdin]
  /\ lineBuffer' = [lineBuffer EXCEPT ![m.s] = m.buf]
  /\ readq' = [readq EXCEPT ![m.s] = m.readq]
  /\ inflight' = [inflight EXCEPT ![m.s] = m.inflight]
  /\ heap' = m.heap
  /\ info' = [info EXCEPT ![m.s] = m.info]
  /\ num_nodes' = [num_nodes EXCEPT ![m.s] = m.num_nodes]
  /\ has_quit_command_been_sent' = [has_quit_command_been_sent EXCEPT ![m.s] = m.quit]
  /\ started' = [started EXCEPT ![m.s] =
                   IF ~(m.t.op = "start" \/ (m.t.op = "is_fen_valid" /\ m.t.s # m.t.home)) THEN @
                   ELSE IF ~InStart(m.t) THEN "yes"
                   ELSE IF m.t.pc # "done" THEN "starting"
                   ELSE IF m.t.result = "ok" THEN "yes" ELSE "failed"]

\* A caller may invoke an operation on a started session when its own
\* previous call has completed.
CanInvoke(c, s) ==
  /\ task[c].pc = "done"
  /\ started[s] = "yes"
  /\ nops < MaxOps

NewTask(op, s) ==
  [IdleTask EXCEPT !.op = op, !.s = s, !.pc = "run", !.pre = heap[parameters[s]],
                   !.info0 = info[s], !.num_nodes0 = num_nodes[s]]

\* Stockfish.start({parameters}): the worker is spawned and "uci" is put.
Start(c, s, defined, partial) ==
  /\ task[c].pc = "done"
  /\ started[s] = "no"
  /\ LET t == [NewTask("start", s) EXCEPT !.defined = defined, !.batch = partial,
                                        !.pc = "version"]
     IN Commit(Run(put(Machine(c, s, t), UciCmd)))
  /\ UNCHANGED << rl, parameters, turn_perspective, exited, stdout, wpos, held, nops >>

\* update_engine_parameters(partial); defined is FALSE for a call without argument
UpdateEngineParameters(c, s, defined, partial) ==
  /\ CanInvoke(c, s)
  /\ LET t == [NewTask("update_engine_parameters", s) EXCEPT !.defined = defined, !.batch = partial]
     IN Commit(Run(IF defined THEN update_engine_parameters(Machine(c, s, t), partial)
                   ELSE Return(Machine(c, s, t))))
  /\ nops' = nops + 1
  /\ UNCHANGED << rl, parameters, turn_perspective, exited, stdout, wpos, held >>

\* reset_engine_parameters()
ResetEngineParameters(c, s) ==
  /\ CanInvoke(c, s)
  /\ LET t == [NewTask("reset_engine_parameters", s) EXCEPT !.batch = EntriesOf(heap["DEFAULT"])]
     IN Commit(Run(update_engine_parameters(Machine(c, s, t), EntriesOf(heap["DEFAULT"]))))
  /\ nops' = nops + 1
  /\ UNCHANGED << rl, parameters, turn_perspective, exited, stdout, wpos, held >>

\* A get_engine_parameters that returns this._parameters itself.
ReturnedRef_Alias(c, live) == live

\* get_engine_parameters(): the reference it returns
ReturnedRef(c, live) == CopyOf(c)

\* get_engine_parameters(): structuredClone makes a new object
GetEngineParameters(c, s) ==
  /\ CanInvoke(c, s)
  /\ heap' = [heap EXCEPT ![CopyOf(c)] = heap[parameters[s]]]
  /\ held' = [held EXCEPT ![c] = ReturnedRef(c, parameters[s])]
  /\ task' = [task EXCEPT ![c] = [NewTask("get_engine_parameters", s) EXCEPT !.pc = "done", !.result = "ok"]]
  /\ nops' = nops + 1
  /\ UNCHANGED << rl, parameters, started, info, num_nodes, turn_perspective,
                  has_quit_command_been_sent, exited, stdin, stdout, lineBuffer,
                  readq, inflight, wpos >>

\* The caller assigns to a property of the object it was returned.
MutateReturned(c, key, value) ==
  /\ task[c].pc = "done"
  /\ held[c] # "none"
  /\ nops < MaxOps
  /\ heap[held[c]][key] # value
  /\ heap' = [heap EXCEPT ![held[c]][key] = value]
  /\ task' = [task EXCEPT ![c] = [NewTask("mutate", task[c].s) EXCEPT !.pc = "done", !.result = "ok"]]
  /\ nops' = nops + 1
  /\ UNCHANGED << rl, parameters, started, info, num_nodes, turn_perspective,
                  has_quit_command_been_sent, exited, stdin, stdout, lineBuffer,
                  readq, inflight, wpos, held >>

\* get_fen_position()
GetFenPosition(c, s) ==
  /\ CanInvoke(c, s)
  /\ Commit(Run(get_fen_position(Machine(c, s, NewTask("get_fen_position", s)))))
  /\ nops' = nops + 1
  /\ UNCHANGED << rl, parameters, turn_perspective, exited, stdout, wpos, held >>

\* get_top_moves(num_top_moves, {num_nodes})
GetTopMoves(c, s, num_top_moves, nodes) ==
  /\ CanInvoke(c, s)
  /\ LET t == [NewTask("get_top_moves", s) EXCEPT !.n = num_top_moves, !.nodes = nodes]
     IN Commit(Run(get_top_moves(Machine(c, s, t), num_top_moves, nodes)))
  /\ nops' = nops + 1
  /\ UNCHANGED << rl, parameters, turn_perspective, exited, stdout, wpos, held >>

\* get_evaluation()
GetEvaluation(c, s) ==
  /\ CanInvoke(c, s)
  /\ Commit(Run(get_evaluation(Machine(c, s, NewTask("get_evaluation", s)))))
  /\ nops' = nops + 1
  /\ UNCHANGED << rl, parameters, turn_perspective, exited, stdout, wpos, held >>

\* get_perft(depth)
GetPerft(c, s, depth) ==
  /\ CanInvoke(c, s)
  /\ LET t == [NewTask("get_perft", s) EXCEPT !.n = depth]
     IN Commit(Run(get_perft(Machine(c, s, t), depth)))
  /\ nops' = nops + 1
  /\ UNCHANGED << rl, parameters, turn_perspective, exited, stdout, wpos, held >>

\* get_static_eval()
GetStaticEval(c, s) ==
  /\ CanInvoke(c, s)
  /\ Commit(Run(get_static_eval(Machine(c, s, NewTask("get_static_eval", s)))))
  /\ nops' = nops + 1
  /\ UNCHANGED << rl, parameters, turn_perspective, exited, stdout, wpos, held >>

\* is_move_correct(move_value)
IsMoveCorrect(c, s, move_value) ==
  /\ CanInvoke(c, s)
  /\ Commit(Run(is_move_correct(Machine(c, s, NewTask("is_move_correct", s)), move_value)))
  /\ nops' = nops + 1
  /\ UNCHANGED << rl, parameters, turn_perspective, exited, stdout, wpos, held >>

\* will_move_be_a_capture(move_value)
WillMoveBeACapture(c, s, move_value) ==
  /\ CanInvoke(c, s)
  /\ Commit(Run(will_move_be_a_capture(Machine(c, s, NewTask("will_move_be_a_capture", s)),
                                        move_value)))
  /\ nops' = nops + 1
  /\ UNCHANGED << rl, parameters, turn_perspective, exited, stdout, wpos, held >>

\* get_what_is_on_square(square)
GetWhatIsOnSquare(c, s, square) ==
  /\ CanInvoke(c, s)
  /\ LET t == [NewTask("get_what_is_on_square", s) EXCEPT !.square = square]
     IN Commit(Run(get_what_is_on_square(Machine(c, s, t), square)))
  /\ nops' = nops + 1
  /\ UNCHANGED << rl, parameters, turn_perspective, exited, stdout, wpos, held >>

\* set_turn_perspective(turn_perspective)
SetTurnPerspective(c, s, value) ==
  /\ CanInvoke(c, s)
  /\ turn_perspective[s] # value
  /\ turn_perspective' = [turn_perspective EXCEPT ![s] = value]
  /\ task' = [task EXCEPT ![c] = [NewTask("set_turn_perspective", s) EXCEPT !.pc = "done", !.result = "ok"]]
  /\ nops' = nops + 1
  /\ UNCHANGED << rl, heap, parameters, started, info, num_nodes,
                  has_quit_command_been_sent, exited, stdin, stdout, lineBuffer,
                  readq, inflight, wpos, held >>

(***************************************************************************)
(* The worker: it takes the commands in the order they were written and    *)
(* emits the response to each as one chunk.                                *)
(***************************************************************************)
\* The pieces of a board, rank by rank (rank 1 first), each rank from file a
\* to file h; a board no square of which is asked for has its kings only.
EmptyRank == << " ", " ", " ", " ", " ", " ", " ", " " >>
Ranks(board) ==
  CASE board = "C" ->
         << << " ", " ", " ", " ", "K", " ", " ", " " >>, EmptyRank, EmptyRank,
            << " ", " ", "P", " ", " ", " ", " ", " " >>,
            << " ", " ", " ", "p", "P", "N", " ", " " >>,
            EmptyRank, EmptyRank,
            << " ", " ", " ", " ", "k", " ", " ", " " >> >>
    [] board = "X" ->
         << << " ", " ", " ", " ", " ", "K", " ", "R" >>, EmptyRank, EmptyRank,
            EmptyRank, EmptyRank, EmptyRank,
            << " ", " ", " ", " ", " ", " ", " ", "p" >>,
            << " ", " ", " ", " ", "k", " ", " ", " " >> >>
    [] board = "start" ->
         << << "R", "N", "B", "Q", "K", "B", "N", "R" >>,
            << "P", "P", "P", "P", "P", "P", "P", "P" >>,
            EmptyRank, EmptyRank, EmptyRank, EmptyRank,
            << "p", "p", "p", "p", "p", "p", "p", "p" >>,
            << "r", "n", "b", "q", "k", "b", "n", "r" >> >>
    [] OTHER ->
         << << " ", " ", " ", " ", "K", " ", " ", " " >>, EmptyRank, EmptyRank,
            EmptyRank, EmptyRank, EmptyRank, EmptyRank,
            << " ", " ", " ", " ", "k", " ", " ", " " >> >>

\* Line i of the 17 the worker draws the board with: a border, or the rank
\* 9 - i / 2 with its cells.
Grid(pos, i) ==
  [k |-> "grid", v |-> "",
   cells |-> IF i % 2 = 1 THEN << >> ELSE Ranks(FenTable[pos].board)[9 - (i \div 2)]]

\* The worker's search of a position: info lines of a lesser depth, then
\* one line of the final depth for each principal variation, the scores
\* being those of the side to move.
SearchOutput(pos) ==
  CASE FenTable[pos].board = "A" ->
         << Info(FALSE, "cp", 12, "e2e4"), Info(TRUE, "cp", 30, "e2e4"),
            Info(TRUE, "mate", 2, "d2d4") >>
    [] FenTable[pos].board = "B" ->
         << Info(FALSE, "cp", 0 - 8, "e7e5"), Info(TRUE, "mate", 0 - 3, "e7e5"),
            Info(TRUE, "cp", 0 - 25, "d7d5") >>
    [] FenTable[pos].side = "b" -> << Info(TRUE, "cp", 0 - 20, "e7e5") >>
    [] OTHER -> << Info(TRUE, "cp", 20, "e2e4") >>

\* The worker's perft of a position: a "<move>: <count>" line for each
\* move and the "Nodes searched: <total>" line.  The worker that holds
\* board B writes one of its lines twice.
PerftOutput(pos) ==
  CASE FenTable[pos].board = "A" ->
         << [k |-> "move", v |-> "e2e4", n |-> 1], [k |-> "move", v |-> "d2d4", n |-> 1],
            [k |-> "move", v |-> "g1f3", n |-> 1], [k |-> "searched", v |-> "", n |-> 3] >>
    [] FenTable[pos].board = "B" ->
         << [k |-> "move", v |-> "e7e5", n |-> 1], [k |-> "move", v |-> "d7d5", n |-> 1],
            [k |-> "move", v |-> "e7e5", n |-> 1], [k |-> "searched", v |-> "", n |-> 3] >>
    [] OTHER ->
         << [k |-> "move", v |-> "e2e4", n |-> 20], [k |-> "move", v |-> "d2d4", n |-> 22],
            [k |-> "searched", v |-> "", n |-> 42] >>

\* The worker's static evaluation of a position, from White's side.
StaticEvalOutput(pos) ==
  CASE FenTable[pos].board = "A" -> Final("", 25)
    [] FenTable[pos].board = "B" -> Final("", 0 - 40)
    [] FenTable[pos].board = "A_e4" -> Final("none", 0)
    [] OTHER -> Final("", 10)

Response(command, pos) ==
  CASE command.c = "isready" -> << Line("readyok", "") >>
    [] command.c = "uci" ->
         << Line("idname", "Stockfish"), Line("option", "Hash"),
            Line("option", "UCI_ShowWDL"), Line("uciok", "") >>
    [] command.c = "d" ->
         [i \in 1..BoardLines |-> Grid(pos, i)]
           \o << Line("files", ""), Line("Fen", pos), Line("Key", ""), Line("Checkers", "") >>
    [] command.c = "go" /\ command.arg # "searchmoves" ->
         SearchOutput(pos) \o << Line("bestmove", SearchOutput(pos)[1].pv) >>
    [] command.c = "eval" -> << Line("NNUE", ""), StaticEvalOutput(pos) >>
    [] command.c = "perft" -> PerftOutput(pos)
    [] command.c = "go" /\ command.arg = "searchmoves" ->
         << Line("info", ""),
            Line("bestmove", IF Legal(pos, command.val) THEN command.val ELSE "(none)") >>
    [] OTHER -> << >>

Worker(s) ==
  /\ ~exited[s]
  /\ stdin[s] # << >>
  /\ Head(stdin[s]).c \notin {"quit", "kill"}
  /\ LET command == Head(stdin[s])
         out == Response(command, wpos[s])
     IN /\ stdin' = [stdin EXCEPT ![s] = Tail(@)]
        /\ stdout' = [stdout EXCEPT ![s] = IF out = << >> THEN @ ELSE Append(@, out)]
        /\ wpos' = [wpos EXCEPT ![s] = IF command.c # "position" THEN @
                                       ELSE IF command.val = "" THEN command.arg
                                       ELSE Apply(command.arg, command.val)]
  /\ UNCHANGED << rl, heap, parameters, started, info, num_nodes, turn_perspective,
                  has_quit_command_been_sent, exited, lineBuffer, readq, inflight,
                  task, held, nops >>

\* A worker that finds no legal move among those its search is restricted
\* to searches every move of the position, and answers with the best.
WorkerSearchesAll(s) ==
  /\ ~exited[s]
  /\ stdin[s] # << >>
  /\ Head(stdin[s]).c = "go" /\ Head(stdin[s]).arg = "searchmoves"
  /\ ~Legal(wpos[s], Head(stdin[s]).val)
  /\ stdin' = [stdin EXCEPT ![s] = Tail(@)]
  /\ stdout' = [stdout EXCEPT ![s] =
                  Append(@, << Line("info", ""),
                               Line("bestmove", SearchOutput(wpos[s])[1].pv) >>)]
  /\ UNCHANGED << rl, heap, parameters, started, info, num_nodes, turn_perspective,
                  has_quit_command_been_sent, exited, lineBuffer, readq, inflight,
                  task, held, nops, wpos >>

\* The oldest pending read request is resolved with the oldest chunk, and
\* the call that made the request goes on.
Deliver(s) ==
  /\ readq[s] # << >>
  /\ stdout[s] # << >>
  /\ Head(readq[s]) # "abandoned"
  /\ LET r == Head(readq[s])
         chunk == Head(stdout[s])
         c == IF r = "detached" THEN "c1" ELSE r
         m == [Machine(c, s, task[c]) EXCEPT !.readq = Tail(@)]
     IN IF r = "detached"
          THEN Commit(DetachedRead([m EXCEPT !.buf = @ \o chunk]))
          ELSE Commit(Resume(m, chunk))
  /\ stdout' = [stdout EXCEPT ![s] = Tail(@)]
  /\ UNCHANGED << rl, parameters, turn_perspective, exited, wpos, held, nops >>

\* set_fen_position(fen_position, send_ucinewgame_token)
SetFenPosition(c, s, fen_position, send_ucinewgame_token) ==
  /\ CanInvoke(c, s)
  /\ LET t == [NewTask("set_fen_position", s) EXCEPT !.defined = send_ucinewgame_token]
     IN Commit(Run(set_fen_position(Machine(c, s, t), fen_position, send_ucinewgame_token)))
  /\ nops' = nops + 1
  /\ UNCHANGED << rl, parameters, turn_perspective, exited, stdout, wpos, held >>

\* make_moves_from_current_position(moves); defined is FALSE for a call
\* without argument
MakeMovesFromCurrentPosition(c, s, defined, moves) ==
  /\ CanInvoke(c, s)
  /\ LET t == [NewTask("make_moves_from_current_position", s)
                EXCEPT !.movelist = moves, !.defined = defined]
     IN Commit(Run(make_moves_from_current_position(Machine(c, s, t), defined, moves)))
  /\ nops' = nops + 1
  /\ UNCHANGED << rl, parameters, turn_perspective, exited, stdout, wpos, held >>

\* set_position(moves); defined is FALSE for a call without argument
SetPosition(c, s, defined, moves) ==
  /\ CanInvoke(c, s)
  /\ LET t == [NewTask("set_position", s) EXCEPT !.movelist = moves, !.defined = defined]
     IN Commit(Run(set_position(Machine(c, s, t))))
  /\ nops' = nops + 1
  /\ UNCHANGED << rl, parameters, turn_perspective, exited, stdout, wpos, held >>

\* get_best_move()
GetBestMove(c, s) ==
  /\ CanInvoke(c, s)
  /\ Commit(Run(get_best_move(Machine(c, s, NewTask("get_best_move", s)))))
  /\ nops' = nops + 1
  /\ UNCHANGED << rl, parameters, turn_perspective, exited, stdout, wpos, held >>

\* is_fen_valid(fen) on session s: a string of invalid syntax is answered at
\* once; for any other a temporary session tmp is started with {Hash: 1}.
IsFenValid(c, s, tmp, fen) ==
  /\ CanInvoke(c, s)
  /\ tmp # s
  /\ started[tmp] = "no"
  /\ LET t == [NewTask("is_fen_valid", s) EXCEPT !.home = s, !.arg = fen]
     IN IF ~is_fen_syntax_valid(fen)
          THEN Commit(Return([Machine(c, s, t) EXCEPT !.t.ret = "false"]))
          ELSE Commit(Run(put(Machine(c, tmp, [t EXCEPT !.s = tmp, !.pc = "version",
                                                        !.defined = TRUE,
                                                        !.batch = << Entry("Hash", Num(1)) >>]),
                              UciCmd)))
  /\ nops' = nops + 1
  /\ UNCHANGED << rl, parameters, turn_perspective, exited, stdout, wpos, held >>

\* quit_stockfish()
QuitStockfish(c, s) ==
  /\ CanInvoke(c, s)
  /\ Commit(quit_stockfish(Machine(c, s, NewTask("quit_stockfish", s))))
  /\ nops' = nops + 1
  /\ UNCHANGED << rl, parameters, turn_perspective, exited, stdout, wpos, held >>

\* The worker's exit resolves this.#stockfish.exited: the calls that await
\* it (quit_stockfish) return.
Exited(s) ==
  /\ exited' = [exited EXCEPT ![s] = TRUE]
  /\ stdin' = [stdin EXCEPT ![s] = << >>]
  /\ task' = [c \in Callers |->
                IF task[c].s = s /\ task[c].pc = "exit"
                  THEN [task[c] EXCEPT !.pc = "done", !.result = "ok"]
                  ELSE task[c]]
  /\ UNCHANGED << rl, heap, parameters, started, info, num_nodes, turn_perspective,
                  has_quit_command_been_sent, stdout, lineBuffer, readq, inflight,
                  wpos, held, nops >>

\* The worker takes the quit command and exits.
WorkerQuits(s) ==
  /\ ~exited[s]
  /\ stdin[s] # << >>
  /\ Head(stdin[s]).c = "quit"
  /\ Exited(s)

\* The worker is killed.
WorkerKilled(s) ==
  /\ ~exited[s]
  /\ stdin[s] # << >>
  /\ Head(stdin[s]).c = "kill"
  /\ Exited(s)

\* The worker exits without having been told to.
Crash(s) ==
  /\ ~exited[s]
  /\ started[s] # "no"
  /\ Exited(s)

\* The pipe hands over two of the worker's writes as one chunk.
Coalesce(s) ==
  /\ Len(stdout[s]) >= 2
  /\ stdout' = [stdout EXCEPT ![s] = << @[1] \o @[2] >> \o SubSeq(@, 3, Len(@))]
  /\ UNCHANGED << rl, heap, parameters, started, info, num_nodes, turn_perspective,
                  has_quit_command_been_sent, exited, stdin, lineBuffer, readq,
                  inflight, wpos, task, held, nops >>

\* A chunk resolves a reader.read() whose #readline has already thrown
\* (Promise.race was settled by the timeout): nobody takes the chunk.
DeliverAbandoned(s) ==
  /\ readq[s] # << >>
  /\ stdout[s] # << >>
  /\ Head(readq[s]) = "abandoned"
  /\ readq' = [readq EXCEPT ![s] = Tail(@)]
  /\ stdout' = [stdout EXCEPT ![s] = Tail(@)]
  /\ inflight' = [inflight EXCEPT ![s] = UnreadAll(@, Head(stdout[s]))]
  /\ UNCHANGED << rl, heap, parameters, started, info, num_nodes, turn_perspective,
                  has_quit_command_been_sent, exited, stdin, lineBuffer,
                  wpos, task, held, nops >>

\* Promise.race in #readline settled by the 5000 ms timer: no chunk came in
\* time.  The error is thrown in the call, and the reader.read() of the
\* #readline stays pending.
Timeout(s) ==
  /\ ~exited[s]
  /\ stdout[s] = << >>
  /\ \E i \in 1..Len(readq[s]) :
       LET r == readq[s][i] IN
       /\ r # "abandoned"
       /\ IF r = "detached"
            THEN /\ readq' = [readq EXCEPT ![s][i] = "abandoned"]
                 /\ UNCHANGED << task, started, heap, info, num_nodes,
                                 has_quit_command_been_sent, stdin, lineBuffer, inflight >>
            ELSE Commit(Throw([Machine(r, s, task[r]) EXCEPT !.readq[i] = "abandoned"],
                              "readtimeout"))
  /\ UNCHANGED << rl, parameters, turn_perspective, exited, stdout, wpos, held, nops >>

\* Promise.race in #readline settled by exitPromise: the worker has exited.
ExitWins(s) ==
  /\ exited[s]
  /\ readq[s] # << >>
  /\ LET r == Head(readq[s]) IN
     /\ readq' = [readq EXCEPT ![s] = Tail(@)]
     /\ task' = IF r \in {"detached", "abandoned"} THEN task
                ELSE [task EXCEPT ![r] = Throw(Machine(r, s, @), "crashed").t]
     /\ started' = [started EXCEPT ![s] =
                      IF r \in Callers /\ task[r].op = "start" THEN "failed" ELSE @]
  /\ UNCHANGED << rl, heap, parameters, info, num_nodes, turn_perspective,
                  has_quit_command_been_sent, exited, stdin, stdout, lineBuffer,
                  inflight, wpos, held, nops >>

\* Promise.race in #readline settled by reader.read() with done: the
\* worker's output has ended and every chunk has been handed over.
EndOfStream(s) ==
  /\ exited[s]
  /\ stdout[s] = << >>
  /\ readq[s] # << >>
  /\ LET r == Head(readq[s])
         c == IF r \in Callers THEN r ELSE "c1"
         m == [Machine(c, s, task[c]) EXCEPT !.readq = Tail(@)]
     IN IF r \in Callers THEN Commit(ReadDone(m))
        ELSE Commit([m EXCEPT !.buf = << >>, !.inflight = UnreadAll(@, m.buf)])
  /\ UNCHANGED << rl, parameters, turn_perspective, exited, stdout, wpos, held, nops >>


(***************************************************************************)
(* The arguments the callers choose from.                                  *)
(***************************************************************************)
ValidBatches ==
  { << Entry("Threads", Num(2)) >>,
    << Entry("Hash", Num(32)) >>,
    << Entry("Hash", Num(32)), Entry("Threads", Num(2)) >>,
    << Entry("Threads", Num(2)), Entry("MultiPV", Num(2)) >>,
    << Entry("Skill Level", Num(5)) >>,
    << Entry("UCI_Elo", Num(1500)) >>,
    << Entry("UCI_Elo", Num(1500)), Entry("Skill Level", Num(5)) >>,
    << Entry("UCI_LimitStrength", Bool(TRUE)), Entry("Skill Level", Num(5)) >>,
    << Entry("Threads", Num(2)), Entry("UCI_Elo", Num(1500)) >>,
    << >> }

InvalidBatches ==
  { << Entry("MultiPV", Num(2)), Entry("Threads", Num(1025)) >>,
    << Entry("Hash", Str("32")) >>,
    << Entry("MultiPV", Num(2)), Entry("Not key", Num(0)) >>,
    << Entry("Threads", Num(0)) >>,
    << Entry("Hash", Num(32)), Entry("Ponder", Num(0)) >> }

\* A batch whose value is a number, and neither below nor over a bound.
NotANumberBatches == { << Entry("Threads", NaN) >> }

Batches == ValidBatches \cup InvalidBatches \cup NotANumberBatches

Squares ==
  { << "e", "4" >>, << "E", "4" >>, << "h", "8" >>, << "i", "4" >>, << "e", "9" >>,
    << "e", "0" >>, << "e" >>, << "e", "4", "4" >> }

TopMoveCounts == { 0, 1, 2, 501 }
NodeBudgets == { 0, 1000 }

Mutations ==
  { Entry("Skill Level", Num(10)), Entry("Threads", Num(0)), Entry("Hash", Str("x")) }

StartParameters == { << >>, << Entry("Hash", Num(1)) >> }

\* One caller and one session: the caller awaits each operation before it
\* invokes the next.
Next ==
  \E c \in {"c1"}, s \in {"s1"} :
    \/ Start(c, s, FALSE, << >>)
    \/ \E p \in Batches : UpdateEngineParameters(c, s, TRUE, p)
    \/ UpdateEngineParameters(c, s, FALSE, << >>)
    \/ ResetEngineParameters(c, s)
    \/ GetEngineParameters(c, s)
    \/ \E e \in Mutations : MutateReturned(c, e.key, e.val)
    \/ GetFenPosition(c, s)
    \/ \E n \in TopMoveCounts, k \in NodeBudgets : GetTopMoves(c, s, n, k)
    \/ \E q \in Squares : GetWhatIsOnSquare(c, s, q)
    \/ \E b \in BOOLEAN : SetTurnPerspective(c, s, b)
    \/ Worker(s)
    \/ Deliver(s)

Spec == Init /\ [][Next]_vars

\* One caller and two sessions, each started with or without parameters.
SessionBatches ==
  { << Entry("Hash", Num(32)) >>, << Entry("Skill Level", Num(5)) >> }

NextSessions ==
  \E c \in {"c1"}, s \in Sessions :
    \/ Start(c, s, FALSE, << >>)
    \/ \E p \in StartParameters : Start(c, s, TRUE, p)
    \/ \E p \in SessionBatches : UpdateEngineParameters(c, s, TRUE, p)
    \/ ResetEngineParameters(c, s)
    \/ GetEngineParameters(c, s)
    \/ Worker(s)
    \/ Deliver(s)

SpecSessions == Init /\ [][NextSessions]_vars

\* Two callers on one session: each awaits its own operations, and either
\* may invoke one while the other's is pending.
NextConcurrent ==
  \E c \in Callers, s \in {"s1"} :
    \/ Start(c, s, FALSE, << >>)
    \/ \E p \in SessionBatches : UpdateEngineParameters(c, s, TRUE, p)
    \/ GetFenPosition(c, s)
    \/ \E q \in { << "e", "4" >> } : GetWhatIsOnSquare(c, s, q)
    \/ Worker(s)
    \/ Deliver(s)

SpecConcurrent == Init /\ [][NextConcurrent]_vars


Fens == { "fenA", "fenB" }
MoveLists == { << >>, << "e2e4" >>, << "e2e4", "e7e5" >>, << "e2e5" >>, << "e2e4", "e2e4" >> }

\* One caller and one session: the operations that set the position.
NextPosition ==
  \E c \in {"c1"}, s \in {"s1"} :
    \/ Start(c, s, FALSE, << >>)
    \/ \E f \in Fens, b \in BOOLEAN : SetFenPosition(c, s, f, b)
    \/ \E ms \in MoveLists : MakeMovesFromCurrentPosition(c, s, TRUE, ms)
    \/ MakeMovesFromCurrentPosition(c, s, FALSE, << >>)
    \/ \E ms \in MoveLists : SetPosition(c, s, TRUE, ms)
    \/ SetPosition(c, s, FALSE, << >>)
    \/ \E p \in { << Entry("Hash", Num(32)) >>, << >> } : UpdateEngineParameters(c, s, TRUE, p)
    \/ GetFenPosition(c, s)
    \/ GetBestMove(c, s)
    \/ Worker(s)
    \/ Deliver(s)

SpecPosition == Init /\ [][NextPosition]_vars

\* One caller and one session whose worker may be told to quit, may exit on
\* its own, and may be slower than the read timeout.
NextTransport ==
  \E c \in {"c1"}, s \in {"s1"} :
    \/ Start(c, s, FALSE, << >>)
    \/ \E p \in SessionBatches : UpdateEngineParameters(c, s, TRUE, p)
    \/ GetFenPosition(c, s)
    \/ GetTopMoves(c, s, 2, 0)
    \/ QuitStockfish(c, s)
    \/ Worker(s)
    \/ WorkerQuits(s)
    \/ Crash(s)
    \/ Coalesce(s)
    \/ Deliver(s)
    \/ DeliverAbandoned(s)
    \/ Timeout(s)
    \/ ExitWins(s)
    \/ EndOfStream(s)

SpecTransport == Init /\ [][NextTransport]_vars

\* Two callers on one session, either of which may tell the worker to quit
\* while the other's operation is pending; the worker may also exit on its
\* own.
NextQuit ==
  \E c \in Callers, s \in {"s1"} :
    \/ Start(c, s, FALSE, << >>)
    \/ UpdateEngineParameters(c, s, TRUE, << Entry("Hash", Num(32)), Entry("MultiPV", Num(2)) >>)
    \/ GetFenPosition(c, s)
    \/ QuitStockfish(c, s)
    \/ Worker(s)
    \/ WorkerQuits(s)
    \/ Crash(s)
    \/ Deliver(s)
    \/ ExitWins(s)
    \/ EndOfStream(s)

SpecQuit == Init /\ [][NextQuit]_vars

\* The sessions' state, which the reader leaves alone.
sessions == << heap, parameters, started, info, num_nodes, turn_perspective,
               has_quit_command_been_sent, exited, stdin, stdout, lineBuffer,
               readq, inflight, wpos, task, held, nops >>

\* A line is in the buffer: it is cut off and trimmed; a blank one is
\* skipped, any other is the call's value and the next call begins.
ReadLineTake ==
  LET newlineIndex == indexOf(rl.buf, NL)
      line == trim(SubSeq(rl.buf, 1, newlineIndex - 1))
  IN /\ rl.last = "none"
     /\ newlineIndex > 0
     /\ rl' = [rl EXCEPT !.buf = SubSeq(rl.buf, newlineIndex + 1, Len(rl.buf)),
                         !.got = IF line = << >> THEN @ ELSE Append(@, line)]
     /\ UNCHANGED sessions

\* No line is in the buffer and the read hands over a chunk of n bytes.
ReadLineChunk(n) ==
  /\ rl.last = "none"
  /\ indexOf(rl.buf, NL) = 0
  /\ rl.pos + n <= Len(rl.out)
  /\ rl' = [rl EXCEPT !.buf = Accumulate(@, Decode(SubSeq(rl.out, rl.pos + 1, rl.pos + n))),
                      !.pos = @ + n,
                      !.chunks = @ + 1]
  /\ UNCHANGED sessions

\* No line is in the buffer and the read reports the end of the stream.
ReadLineDone ==
  LET line == trim(rl.buf) IN
  /\ rl.last = "none"
  /\ indexOf(rl.buf, NL) = 0
  /\ rl.pos = Len(rl.out)
  /\ IF rl.buf # << >>
     THEN rl' = [rl EXCEPT !.buf = << >>,
                           !.got = IF line = << >> THEN @ ELSE Append(@, line)]
     ELSE rl' = [rl EXCEPT !.last = IF rl.quit THEN "empty" ELSE "streamended"]
  /\ UNCHANGED sessions

\* The worker has written all its output and exited: the call under way, or
\* the next one, fails with the crashed error, and so does every later one.
ReadLineExited ==
  /\ rl.last = "none"
  /\ rl' = [rl EXCEPT !.last = "crashed"]
  /\ UNCHANGED sessions

Outputs == UNION { [1..n -> Bytes] : n \in 0..MaxOutput }

InitReadline == NoSession /\ rl \in { Reader(out, quit) : out \in Outputs, quit \in BOOLEAN }

\* Successive read_line calls on one stream, for every output and every way
\* of cutting it into chunks.
NextReadline ==
  \/ ReadLineTake
  \/ \E n \in 1..MaxOutput : ReadLineChunk(n)
  \/ ReadLineDone
  \/ ReadLineExited

SpecReadline == InitReadline /\ [][NextReadline]_vars

\* One caller and one session: every syntactically valid position string
\* is set, and the position is asked for.
NextRoundTrip ==
  \E c \in {"c1"}, s \in {"s1"} :
    \/ Start(c, s, FALSE, << >>)
    \/ \E f \in { x \in FenNames : is_fen_syntax_valid(x) }, b \in BOOLEAN :
         SetFenPosition(c, s, f, b)
    \/ GetFenPosition(c, s)
    \/ Worker(s)
    \/ Deliver(s)

SpecRoundTrip == Init /\ [][NextRoundTrip]_vars

\* One caller on session s1, whose is_fen_valid starts the temporary
\* session s2; the temporary worker may crash on the position it is given.
NextFenValid ==
  \E c \in {"c1"} :
    \/ Start(c, "s1", FALSE, << >>)
    \/ \E f \in {"fenA", "fenB", "fen_short"} : IsFenValid(c, "s1", "s2", f)
    \/ GetFenPosition(c, "s1")
    \/ GetBestMove(c, "s1")
    \/ \E s \in Sessions : Worker(s)
    \/ \E s \in Sessions : Deliver(s)
    \/ WorkerKilled("s2")
    \/ Crash("s2")
    \/ ExitWins("s2")
    \/ EndOfStream("s2")
    \/ Timeout("s2")
    \/ DeliverAbandoned("s2")

SpecFenValid == Init /\ [][NextFenValid]_vars



\* One caller and one session: UCI_Chess960 and the position are set, and
\* moves are classified.
CaptureMoves ==
  { << "e", "5", "d", "6" >>, << "c", "4", "d", "5" >>, << "f", "5", "d", "6" >>,
    << "e", "5", "e", "6" >>, << "e", "1", "e", "2" >>, << "e", "5", "e", "7" >>,
    << "e", "2", "e", "4" >>, << "f", "1", "h", "1" >>, << "h", "1", "h", "7" >>,
    << "f", "1", "e", "1" >> }

NextCapture ==
  \E c \in {"c1"}, s \in {"s1"} :
    \/ Start(c, s, FALSE, << >>)
    \/ \E b \in BOOLEAN : UpdateEngineParameters(c, s, TRUE, << Entry("UCI_Chess960", Bool(b)) >>)
    \/ \E f \in {"fenC", "fenX"} : SetFenPosition(c, s, f, TRUE)
    \/ \E mv \in CaptureMoves : WillMoveBeACapture(c, s, mv)
    \/ \E q \in { << "e", "5" >>, << "h", "1" >> } : GetWhatIsOnSquare(c, s, q)
    \/ Worker(s)
    \/ Deliver(s)

SpecCapture == Init /\ [][NextCapture]_vars

\* One caller and one session: the position is set and the moves are
\* counted, after other operations or none.
NextPerft ==
  \E c \in {"c1"}, s \in {"s1"} :
    \/ Start(c, s, FALSE, << >>)
    \/ \E f \in {"fenA", "fenB"} : SetFenPosition(c, s, f, TRUE)
    \/ \E d \in {0, 1, 2} : GetPerft(c, s, d)
    \/ GetTopMoves(c, s, 2, 0)
    \/ GetFenPosition(c, s)
    \/ Worker(s)
    \/ Deliver(s)

SpecPerft == Init /\ [][NextPerft]_vars

(***************************************************************************)
(* The version of the worker.  A version text is a sequence of characters, *)
(* so that splitting, slicing and parsing are the operations of the code.  *)
(***************************************************************************)

\* array[i] of JavaScript: undefined beyond the end of the array
Undefined == << "u", "n", "d", "e", "f", "i", "n", "e", "d" >>
At(array, i) == IF i + 1 \in DOMAIN array THEN array[i + 1] ELSE Undefined

\* String.prototype.split on a one-character separator
RECURSIVE split_from(_, _, _, _)
split_from(text, separator, i, piece) ==
  IF i > Len(text) THEN << piece >>
  ELSE IF text[i] = separator
    THEN << piece >> \o split_from(text, separator, i + 1, << >>)
  ELSE split_from(text, separator, i + 1, Append(piece, text[i]))

split_on(text, separator) == split_from(text, separator, 1, << >>)

\* String.prototype.slice(start, end) with 0 <= start <= end
slice(text, start, end) ==
  SubSeq(text, start + 1, IF end < Len(text) THEN end ELSE Len(text))

\* String.prototype.startsWith
startsWith(text, prefix) ==
  Len(text) >= Len(prefix) /\ SubSeq(text, 1, Len(prefix)) = prefix

IsDigit(ch) == ch \in {"0", "1", "2", "3", "4", "5", "6", "7", "8", "9"}

\* The number of decimal digits a text begins with
RECURSIVE LeadingDigits(_, _)
LeadingDigits(text, i) ==
  IF i <= Len(text) /\ IsDigit(text[i]) THEN LeadingDigits(text, i + 1) ELSE i - 1

RECURSIVE DigitsValue(_, _)
DigitsValue(text, k) ==
  IF k = 0 THEN 0 ELSE 10 * DigitsValue(text, k - 1) + (CharCode(text[k]) - 48)

\* parseInt: the value of the leading decimal digits, NaN when there is
\* none (as for undefined, which is read as the text "undefined"); it
\* never throws.
parseInt(text) ==
  IF LeadingDigits(text, 1) = 0 THEN NaN
  ELSE Num(DigitsValue(text, LeadingDigits(text, 1)))

DigitChar(d) ==
  CASE d = 0 -> "0" [] d = 1 -> "1" [] d = 2 -> "2" [] d = 3 -> "3"
    [] d = 4 -> "4" [] d = 5 -> "5" [] d = 6 -> "6" [] d = 7 -> "7"
    [] d = 8 -> "8" [] d = 9 -> "9"

RECURSIVE Decimal(_)
Decimal(n) ==
  IF n < 10 THEN << DigitChar(n) >>
  ELSE Append(Decimal(n \div 10), DigitChar(n % 10))

\* `${value}` of a template literal, for the value of a parseInt
Template(v) == IF IsNaN(v) THEN << "N", "a", "N" >> ELSE Decimal(v.n)

\* _RELEASES, in the order of the object literal
RELEASES ==
  << [key |-> << "1", "7", ".", "1" >>,
      value |-> << "2", "0", "2", "5", "-", "0", "3", "-", "3", "0" >>],
     [key |-> << "1", "7", ".", "0" >>,
      value |-> << "2", "0", "2", "4", "-", "0", "9", "-", "0", "6" >>],
     [key |-> << "1", "6", ".", "1" >>,
      value |-> << "2", "0", "2", "4", "-", "0", "2", "-", "2", "4" >>],
     [key |-> << "1", "6", ".", "0" >>,
      value |-> << "2", "0", "2", "3", "-", "0", "6", "-", "3", "0" >>] >>

\* The days of a date are counted on a calendar of months of 31 days,
\* which keeps the order of the dates; a time is a number of hours.
DayNumber(y, m, d) == (y * 12 + (m - 1)) * 31 + (d - 1)

InvalidDate == [valid |-> FALSE, time |-> 0]

\* The date-only form YYYY-MM-DD of the date time string format
IsDateOnlyForm(text) ==
  LET parts == split_on(text, "-") IN
  /\ Len(parts) = 3
  /\ Len(parts[1]) = 4 /\ Len(parts[2]) = 2 /\ Len(parts[3]) = 2
  /\ \A p \in 1..3 : LeadingDigits(parts[p], 1) = Len(parts[p])

\* new Date(text).  A text in the date-only form is midnight of that day
\* in UTC.  What any other text gives is left to the implementation: env
\* says whether it is an invalid date or the local midnight of the day, in
\* a time zone env.tz hours ahead of UTC.
NewDate(text, env) ==
  LET parts == split_on(text, "-")
      day == DayNumber(parseInt(parts[1]).n, parseInt(parts[2]).n, parseInt(parts[3]).n)
  IN
  IF IsDateOnlyForm(text) THEN [valid |-> TRUE, time |-> 24 * day]
  ELSE IF Len(parts) = 3 /\ env.legacy = "local"
         /\ \A p \in 1..3 : ~IsNaN(parseInt(parts[p]))
    THEN [valid |-> TRUE, time |-> 24 * day - env.tz]
  ELSE InvalidDate

\* value <= date_object and value > other of two Date objects: a
\* comparison with an invalid date is false
DateLeq(a, b) == a.valid /\ b.valid /\ a.time <= b.time
DateGt(a, b) == a.valid /\ b.valid /\ a.time > b.time

\* The loop of _get_stockfish_version_from_build_date over the releases
\* from the i-th on; key_for_date is 0 for null, else the place of the key.
RECURSIVE key_for_date_from(_, _, _, _)
key_for_date_from(date_object, env, i, key_for_date) ==
  IF i > Len(RELEASES) THEN key_for_date
  ELSE key_for_date_from(date_object, env, i + 1,
         IF DateLeq(NewDate(RELEASES[i].value, env), date_object)
            /\ (key_for_date = 0
                \/ DateGt(NewDate(RELEASES[i].value, env),
                          NewDate(RELEASES[key_for_date].value, env)))
         THEN i ELSE key_for_date)

get_stockfish_version_from_build_date(date_string, env) ==
  LET key_for_date == key_for_date_from(NewDate(date_string, env), env, 1, 0) IN
  IF key_for_date = 0 THEN [threw |-> TRUE, text |-> << >>]
  ELSE [threw |-> FALSE, text |-> RELEASES[key_for_date].key]

NoVersion ==
  [major |-> Num(0), minor |-> Num(0), patch |-> << >>, sha |-> << >>,
   is_dev_build |-> FALSE, text |-> << >>]

\* #parse_stockfish_version, the part for a text that begins with "dev-"
ParseDev(v, env) ==
  IF ~startsWith(v.text, << "d", "e", "v", "-" >>) THEN [threw |-> FALSE, version |-> v]
  ELSE
    LET build_date == At(split_on(v.text, "-"), 1)
        date_string == Template(parseInt(slice(build_date, 0, 4))) \o << "-" >>
                       \o Template(parseInt(slice(build_date, 4, 6))) \o << "-" >>
                       \o Template(parseInt(slice(build_date, 6, 8)))
        found == get_stockfish_version_from_build_date(date_string, env)
    IN [threw |-> found.threw,
        version |-> [v EXCEPT !.is_dev_build = TRUE,
                              !.patch = At(split_on(v.text, "-"), 1),
                              !.sha = At(split_on(v.text, "-"), 2),
                              !.text = found.text]]

\* #parse_stockfish_version, the part for a text of six characters (DDMMYY)
ParseSixDigits(v, env) ==
  IF Len(v.text) # 6 THEN [threw |-> FALSE, version |-> v]
  ELSE
    LET build_date == v.text
        date_string == << "2", "0" >> \o slice(build_date, 4, 6) \o << "-" >>
                       \o slice(build_date, 2, 4) \o << "-" >>
                       \o slice(build_date, 0, 2)
        found == get_stockfish_version_from_build_date(date_string, env)
    IN [threw |-> found.threw,
        version |-> [v EXCEPT !.is_dev_build = TRUE, !.patch = v.text,
                              !.text = found.text]]

\* #parse_stockfish_version, the numbers of every version text
ParseNumbers(v) ==
  [v EXCEPT !.major = parseInt(At(split_on(v.text, "."), 0)),
            !.minor = parseInt(At(split_on(v.text, "."), 1))]

\* #parse_stockfish_version: any failure inside is thrown again as the
\* failure to parse the version
parse_stockfish_version(version_text, env) ==
  LET dev == ParseDev([NoVersion EXCEPT !.text = version_text], env)
      six == ParseSixDigits(dev.version, env)
  IN IF dev.threw THEN dev
     ELSE IF six.threw THEN six
     ELSE [threw |-> FALSE, version |-> ParseNumbers(six.version)]

\* The version texts that are parsed: releases with and without a minor
\* number, and development builds of both forms, dated before, on and
\* after the dates of the releases.
Dev(build_date) == << "d", "e", "v", "-" >> \o build_date \o << "-", "a", "b" >>

ReleaseTexts ==
  { << "1", "7", ".", "1" >>, << "1", "7" >>, << "1", "4" >>, << "1", "6", ".", "0" >> }

VersionTexts ==
  ReleaseTexts \cup
  { Dev(<< "2", "0", "2", "2", "1", "2", "1", "9" >>),
    Dev(<< "2", "0", "2", "3", "0", "6", "2", "9" >>),
    Dev(<< "2", "0", "2", "3", "0", "6", "3", "0" >>),
    Dev(<< "2", "0", "2", "3", "1", "1", "1", "2" >>),
    Dev(<< "2", "0", "2", "4", "0", "9", "0", "5" >>),
    Dev(<< "2", "0", "2", "4", "0", "9", "0", "6" >>),
    Dev(<< "2", "0", "2", "4", "1", "2", "1", "9" >>),
    Dev(<< "2", "0", "2", "5", "0", "3", "3", "0" >>),
    << "2", "8", "0", "3", "2", "2" >>, << "2", "5", "0", "7", "2", "3" >>,
    << "0", "6", "0", "9", "2", "4" >>, << "0", "5", "0", "9", "2", "4" >> }

\* What new Date makes of a text outside the date time string format
DateEnvironments ==
  { [legacy |-> "invalid", tz |-> 0] }
    \cup { [legacy |-> "local", tz |-> z] : z \in {0 - 5, 0, 2} }

ParseStockfishVersion(c, version_text, env) ==
  /\ task[c].pc = "done"
  /\ LET parsed == parse_stockfish_version(version_text, env) IN
       task' = [task EXCEPT ![c] =
                  [IdleTask EXCEPT !.op = "parse_stockfish_version",
                                   !.version_text = version_text,
                                   !.version = parsed.version,
                                   !.result = IF parsed.threw THEN "unable" ELSE "ok"]]
  /\ UNCHANGED << heap, parameters, started, info, num_nodes, turn_perspective,
                  has_quit_command_been_sent, exited, stdin, stdout, lineBuffer,
                  readq, inflight, wpos, held, nops, rl >>

\* One caller parses every version text, the other those of releases.
NextVersion ==
  \E env \in DateEnvironments :
    \/ \E version_text \in VersionTexts : ParseStockfishVersion("c1", version_text, env)
    \/ \E version_text \in ReleaseTexts : ParseStockfishVersion("c2", version_text, env)

SpecVersion == Init /\ [][NextVersion]_vars

\* One caller and one session: moves that are legal and moves that are not
\* are checked, by a worker of either kind.
NextMoveCorrect ==
  \E c \in {"c1"}, s \in {"s1"} :
    \/ Start(c, s, FALSE, << >>)
    \/ \E f \in {"fenA", "fenB"} : SetFenPosition(c, s, f, TRUE)
    \/ \E mv \in {"e2e4", "e7e5", "a1a8"} : IsMoveCorrect(c, s, mv)
    \/ GetFenPosition(c, s)
    \/ Worker(s)
    \/ WorkerSearchesAll(s)
    \/ Deliver(s)

SpecMoveCorrect == Init /\ [][NextMoveCorrect]_vars

\* One caller and one session: the position and the perspective are set,
\* and the scores are asked for.
NextEval ==
  \E c \in {"c1"}, s \in {"s1"} :
    \/ Start(c, s, FALSE, << >>)
    \/ \E f \in {"fenA", "fenB", "fen_e4", "fenA_e4"} : SetFenPosition(c, s, f, TRUE)
    \/ \E b \in BOOLEAN : SetTurnPerspective(c, s, b)
    \/ GetEvaluation(c, s)
    \/ GetStaticEval(c, s)
    \/ \E n \in {1, 2}, k \in NodeBudgets : GetTopMoves(c, s, n, k)
    \/ Worker(s)
    \/ Deliver(s)

SpecEval == Init /\ [][NextEval]_vars

(***************************************************************************)
(* The claims.                                                             *)
(***************************************************************************)
SetOptions(log) == SelectSeq(log, LAMBDA x : x.c = "setoption")
IsUpdate(t) == t.op = "update_engine_parameters" /\ t.defined
Succeeded(t) == t.pc = "done" /\ t.result = "ok"
LiveOf(s) == heap[parameters[s]]

\* A value of the declared type and, for a number, within the declared bounds.
Declared(k, v) ==
  /\ k \in ParamKeys
  /\ v.t = PARAM_RESTRICTIONS[k].type
  /\ v.t = "number" =>
       (~IsNaN(v) /\ PARAM_RESTRICTIONS[k].min <= v.n /\ v.n <= PARAM_RESTRICTIONS[k].max)

BadBatch(batch) == \E i \in 1..Len(batch) : ~Declared(batch[i].key, batch[i].val)

\* A square name: a file letter a-h in either case and a rank digit 1-8.
SquareName(square) ==
  /\ Len(square) = 2
  /\ square[1] \in {"a", "b", "c", "d", "e", "f", "g", "h",
                    "A", "B", "C", "D", "E", "F", "G", "H"}
  /\ square[2] \in {"1", "2", "3", "4", "5", "6", "7", "8"}

\* C1: with one caller that awaits every operation, at most one command
\* written to the worker is awaiting its terminal line at any moment.
C1_SingleFlight == \A s \in Sessions : Len(inflight[s]) <= 1

\* C2: while two operations are pending on a session, the command of the
\* second is not written before the terminal line of the first is read: at
\* most one command awaits its terminal line.
C2_SecondWaits ==
  \A s \in Sessions :
    (\A c \in Callers : task[c].s = s /\ task[c].pc # "done") => Len(inflight[s]) <= 1

\* C3: an update with an unknown key or a value of the wrong type or out of
\* bounds, and get_what_is_on_square with an invalid square name, fail with
\* nothing written to the worker and the live parameters as they were.
C3_ValidationBeforeWrite ==
  \A c \in Callers :
    LET t == task[c] IN
    (\/ IsUpdate(t) /\ BadBatch(t.batch)
     \/ t.op = "get_what_is_on_square" /\ ~SquareName(t.square))
      => /\ t.pc = "done"
         /\ t.result # "ok"
         /\ t.log = << >>
         /\ LiveOf(t.s) = t.pre

\* C4: the live parameter set has exactly the declared keys, each with a
\* value of the declared type and within the declared bounds.
C4_LiveSetDeclared ==
  \A s \in Sessions :
    /\ DOMAIN LiveOf(s) = ParamKeys
    /\ \A k \in ParamKeys : Declared(k, LiveOf(s)[k])

\* C5: after a successful update, UCI_LimitStrength is the value given if
\* the batch has one; else false for Skill Level alone, true for UCI_Elo
\* alone, and the previous value for both or neither.
C5_LimitStrength ==
  \A c \in Callers :
    LET t == task[c]
        ls == LiveOf(t.s)["UCI_LimitStrength"]
    IN (IsUpdate(t) /\ Succeeded(t)) =>
         IF HasKey(t.batch, "UCI_LimitStrength") THEN ls = ValueOf(t.batch, "UCI_LimitStrength")
         ELSE IF HasKey(t.batch, "Skill Level") /\ ~HasKey(t.batch, "UCI_Elo") THEN ls = Bool(FALSE)
         ELSE IF HasKey(t.batch, "UCI_Elo") /\ ~HasKey(t.batch, "Skill Level") THEN ls = Bool(TRUE)
         ELSE ls = t.pre["UCI_LimitStrength"]

C5_Witness ==
  LET t == task["c1"] IN
  /\ IsUpdate(t) /\ Succeeded(t)
  /\ t.batch = << Entry("UCI_Elo", Num(1500)), Entry("Skill Level", Num(5)) >>
  /\ t.pre["UCI_LimitStrength"] = Bool(TRUE)
  /\ LiveOf("s1")["UCI_LimitStrength"] = Bool(TRUE)

\* C6: a successful update whose batch has Threads wrote the Threads
\* setoption before a Hash setoption, and that Hash setoption carries the
\* batch's Hash value, or the live Hash value if the batch has none.
C6_ThreadsBeforeHash ==
  \A c \in Callers :
    LET t == task[c]
        so == SetOptions(t.log)
        hash == IF HasKey(t.batch, "Hash") THEN ValueOf(t.batch, "Hash") ELSE t.pre["Hash"]
    IN (IsUpdate(t) /\ Succeeded(t) /\ HasKey(t.batch, "Threads")) =>
         \E i, j \in 1..Len(so) :
           /\ i < j
           /\ so[i].name = "Threads" /\ so[i].val = String(ValueOf(t.batch, "Threads"))
           /\ so[j].name = "Hash" /\ so[j].val = String(hash)
           /\ \A k \in 1..i : so[k].name # "Hash"

C6_Witness ==
  LET t == task["c1"] IN
  /\ IsUpdate(t) /\ Succeeded(t)
  /\ t.batch = << Entry("Threads", Num(2)) >>
  /\ t.pre["Hash"] = Num(32)
  /\ SetOptions(t.log) = << SetOptionCmd("Threads", "2"), SetOptionCmd("Hash", "32") >>

\* C7 as claimed: an update whose batch has Threads and other keys writes
\* the Threads setoption first.
C7_ThreadsFirst ==
  \A c \in Callers :
    LET t == task[c]
        so == SetOptions(t.log)
    IN (IsUpdate(t) /\ HasKey(t.batch, "Threads") /\ so # << >>) => so[1].name = "Threads"

\* C7 as amended: a successful update whose batch has Threads wrote the
\* Threads setoption and then the Hash setoption as its last two
\* configuration writes; every other key of the batch, an inferred
\* UCI_LimitStrength included, was written before Threads.
C7_ThreadsHashLast ==
  \A c \in Callers :
    LET t == task[c]
        so == SetOptions(t.log)
        n == Len(so)
    IN (IsUpdate(t) /\ Succeeded(t) /\ HasKey(t.batch, "Threads")) =>
         /\ n >= 2
         /\ so[n - 1].name = "Threads"
         /\ so[n].name = "Hash"
         /\ \A i \in 1..(n - 2) : so[i].name \notin {"Threads", "Hash"}
         /\ \A k \in ParamKeys :
              (HasKey(InferLimitStrength(t.batch), k) /\ k \notin {"Threads", "Hash"})
                => \E i \in 1..(n - 2) : so[i].name = k

C7_Witness ==
  LET t == task["c1"] IN
  /\ IsUpdate(t) /\ Succeeded(t)
  /\ t.batch = << Entry("Threads", Num(2)), Entry("UCI_Elo", Num(1500)) >>
  /\ Len(SetOptions(t.log)) = 4
  /\ SetOptions(t.log)[2].name = "UCI_LimitStrength"

\* C8: after the caller has changed the object get_engine_parameters
\* returned, the live parameters are what they were.
C8_CopyOnRead ==
  \A c \in Callers : task[c].op = "mutate" => LiveOf(task[c].s) = task[c].pre

C8_Witness ==
  /\ task["c1"].op = "mutate"
  /\ held["c1"] # "none"
  /\ heap[CopyOf("c1")]["Skill Level"] = Num(10)
  /\ LiveOf("s1")["Skill Level"] = Num(5)

\* C9: after reset_engine_parameters succeeds the live parameters are the
\* declared defaults.
C9_ResetToDefaults ==
  \A c \in Callers :
    (task[c].op = "reset_engine_parameters" /\ Succeeded(task[c]))
      => LiveOf(task[c].s) = DEFAULT_STOCKFISH_PARAMS

\* C10: no step changes the class-level DEFAULT_STOCKFISH_PARAMS, and a
\* step of an operation on one session leaves the live parameters of every
\* other session as they were.
C10_SessionConfined ==
  [][ /\ heap'["DEFAULT"] = DEFAULT_STOCKFISH_PARAMS
      /\ \A c \in Callers :
           task'[c] # task[c] =>
             \A s \in Sessions \ {task'[c].s} : heap'[parameters[s]] = heap[parameters[s]] ]_vars


\* The commands a step of caller c writes: what its call's log gains.
Written(c) ==
  IF task'[c] = task[c] THEN << >>
  ELSE IF task[c].pc = "done" THEN task'[c].log
  ELSE SubSeq(task'[c].log, Len(task[c].log) + 1, Len(task'[c].log))

IsUpdateOrReset(t) == IsUpdate(t) \/ t.op = "reset_engine_parameters"

\* C11: within update_engine_parameters and reset_engine_parameters, every
\* setoption written is followed at once by isready; a setoption after the
\* first is written only in the step that reads readyok; and a live value
\* changes only in a step that writes the setoption of that key and value.
C11_WriteProbeMerge ==
  [][ \A c \in Callers :
        LET t == task'[c]
            s == t.s
            w == Written(c)
        IN IsUpdateOrReset(t) =>
             /\ \A i \in 1..Len(t.log) :
                  t.log[i].c = "setoption" => (i < Len(t.log) /\ t.log[i + 1] = IsReadyCmd)
             /\ (task[c].pc # "done" /\ \E i \in 1..Len(w) : w[i].c = "setoption") =>
                  /\ stdout[s] # << >>
                  /\ \E i \in 1..Len(Head(stdout[s])) : Head(stdout[s])[i].k = "readyok"
                  /\ stdout'[s] = Tail(stdout[s])
             /\ \A k \in ParamKeys :
                  (task'[c] # task[c] /\ heap'[parameters[s]][k] # heap[parameters[s]][k]) =>
                    \E i \in 1..Len(w) :
                      w[i] = SetOptionCmd(k, String(heap'[parameters[s]][k])) ]_vars

\* C12: a successful update_engine_parameters with a defined batch ends,
\* after its last setoption, with the position query d, an isready and the
\* position command for the position the worker reported, which is the
\* position the worker holds; it writes no ucinewgame.
C12_PositionResent ==
  \A c \in Callers :
    LET t == task[c]
        n == Len(t.log)
    IN (IsUpdate(t) /\ Succeeded(t)) =>
         /\ n >= 3
         /\ t.log[n - 2] = DCmd
         /\ t.log[n - 1] = IsReadyCmd
         /\ t.log[n] = PositionCmd(t.fen)
         /\ t.fen = wpos[t.s]
         /\ \A i \in 1..n : t.log[i].c # "ucinewgame"
         /\ \A i \in 1..n : t.log[i].c = "setoption" => i < n - 2

C12_Witness ==
  LET t == task["c1"] IN
  /\ IsUpdate(t) /\ Succeeded(t)
  /\ t.batch = << Entry("Hash", Num(32)) >>
  /\ t.fen = "fenA"
  /\ t.log[Len(t.log)] = PositionCmd("fenA")

\* C20: make_moves_from_current_position writes no ucinewgame;
\* set_fen_position writes ucinewgame exactly when its second argument is
\* true, and then before the position command.
C20_NewGameToken ==
  \A c \in Callers :
    LET t == task[c]
        n == Len(t.log)
    IN /\ t.op = "make_moves_from_current_position" =>
            \A i \in 1..n : t.log[i].c # "ucinewgame"
       /\ (t.op = "set_fen_position" /\ Succeeded(t)) =>
            /\ t.log[n] = PositionCmd(t.fen)
            /\ t.defined <=> \E i \in 1..n : t.log[i].c = "ucinewgame"
            /\ \A i, j \in 1..n :
                 (t.log[i].c = "ucinewgame" /\ t.log[j].c = "position") => i < j
       /\ (t.op = "set_fen_position" /\ ~t.defined) =>
            \A i \in 1..n : t.log[i].c # "ucinewgame"

C20_Witness ==
  /\ task["c1"].op = "make_moves_from_current_position"
  /\ Succeeded(task["c1"])
  /\ task["c1"].movelist = << "e2e4", "e7e5" >>
  /\ wpos["s1"] = "fen_e4_e5"


\* C13: once quit has been written, no step writes a command to the
\* worker's input (so quit is written once), and a quit_stockfish call that
\* completes, completes without error.
C13_NoWriteAfterQuit ==
  [][ \A s \in Sessions :
        /\ has_quit_command_been_sent[s] =>
             /\ Len(stdin'[s]) <= Len(stdin[s])
             /\ \A c \in Callers : task'[c].s = s => Written(c) = << >>
        /\ \A c \in Callers :
             (task'[c].op = "quit_stockfish" /\ task'[c].pc = "done") => task'[c].result = "ok" ]_vars

C13_Witness ==
  LET t == task["c1"] IN
  /\ task["c2"].op = "quit_stockfish"
  /\ has_quit_command_been_sent["s1"]
  /\ ~exited["s1"]
  /\ t.op = "quit_stockfish" /\ t.pc = "exit"
  /\ t.log = << >>
  /\ Len(SelectSeq(stdin["s1"], LAMBDA x : x.c = "quit")) = 1

\* C14: once the worker has exited, an operation invoked on the session
\* writes nothing and, if it reads, fails with the crashed error, also when
\* complete lines are still in the line buffer.
C14_DeadAfterExit ==
  [][ \A c \in Callers :
        LET t == task'[c]
            s == t.s
        IN (exited[s] /\ task[c].pc = "done" /\ t # task[c]) =>
             /\ t.pc = "done"
             /\ t.log = << >>
             /\ stdin'[s] = stdin[s]
             /\ lineBuffer'[s] = lineBuffer[s]
             /\ t.result = IF t.op = "quit_stockfish" THEN "ok" ELSE "crashed" ]_vars

C14_Witness ==
  LET t == task["c1"] IN
  /\ exited["s1"]
  /\ lineBuffer["s1"] # << >>
  /\ t.op = "get_fen_position"
  /\ t.result = "crashed"
  /\ t.log = << >>

\* C15: an operation that was awaiting output when the worker exited, quit
\* not having been sent, does not end with an error other than crashed.
C15_CrashedOnExit ==
  [][ \A c \in Callers :
        LET s == task[c].s IN
        (exited[s] /\ ~has_quit_command_been_sent[s]
           /\ task[c].pc \notin {"done", "exit"} /\ task'[c].pc = "done")
          => task'[c].result \in {"ok", "crashed"} ]_vars

\* C16: a call fails with the stream-ended error only when the worker's
\* output has ended with nothing buffered and quit has not been sent.
C16_StreamEnded ==
  \A c \in Callers :
    LET t == task[c] IN
    t.result = "streamended" =>
      /\ t.pc = "done"
      /\ exited[t.s]
      /\ stdout[t.s] = << >>
      /\ lineBuffer[t.s] = << >>
      /\ ~has_quit_command_been_sent[t.s]

C16_Witness ==
  /\ task["c1"].op = "get_fen_position"
  /\ task["c1"].result = "streamended"
  /\ exited["s1"]

\* C17: no operation fails with the read-timeout error, since no operation
\* lets its caller ask for a timeout.
C17_TimeoutOptIn ==
  \A c \in Callers : task[c].result # "readtimeout"

\* C18: on a started session, a chunk leaves the worker's output only into a read whose call is
\* still waiting for it: none is taken by a read that was abandoned.
C18_NoChunkDropped ==
  [][ \A s \in Sessions :
        (started[s] = "yes" /\ stdout[s] # << >> /\ stdout'[s] = Tail(stdout[s]))
          => (readq[s] # << >> /\ Head(readq[s]) # "abandoned") ]_vars

\* The text of the worker's output cut at its line feeds: the segments
\* before each line feed and the one after the last.
RECURSIVE Split(_)
Split(text) ==
  LET i == indexOf(text, NL) IN
  IF i = 0 THEN << text >>
  ELSE << SubSeq(text, 1, i - 1) >> \o Split(SubSeq(text, i + 1, Len(text)))

Trimmed(segs) == [i \in 1..Len(segs) |-> trim(segs[i])]

\* The non-blank trimmed segments of a text.
Segments(text) == SelectSeq(Trimmed(Split(text)), LAMBDA x : x # << >>)

\* C19: for every output and every cut into chunks, the values read_line
\* has returned, followed by the segments of the text still buffered or not
\* yet read, are the non-blank trimmed newline-delimited segments of the
\* whole output; no returned value is blank; and when a call has found the
\* end of the stream, the returned values are all the segments.
C19_LinesAreSegments ==
  LET whole == Decode(rl.out)
      rest == rl.buf \o Decode(SubSeq(rl.out, rl.pos + 1, Len(rl.out)))
  IN /\ rl.got \o Segments(rest) = Segments(whole)
     /\ \A i \in 1..Len(rl.got) : rl.got[i] # << >>
     /\ rl.last \in {"empty", "streamended"} => rl.got = Segments(whole)

\* The output "a \n\na" read one byte at a time: a line to trim, a blank
\* line, and a last segment without a line feed.
C19_Witness ==
  /\ rl.out = << 97, 32, 10, 10, 97 >>
  /\ rl.chunks = 5
  /\ rl.got = << << "a" >>, << "a" >> >>
  /\ rl.last = "streamended"

\* The position commands a call has written for moves, oldest first.
MoveCmds(t) == SelectSeq(t.log, LAMBDA x : x.c = "position" /\ x.val # "")

\* C21: a make_moves_from_current_position that fails on the i-th move of
\* its list names that move, which is illegal in the position the worker
\* holds; it has written the position commands of the i-1 moves before it,
\* each legal where it was made, and of no other move; they stay applied.
C21_FirstIllegalMove ==
  \A c \in Callers :
    LET t == task[c]
        i == Len(t.movelist) - Len(t.moves) + 1
        w == MoveCmds(t)
    IN (t.op = "make_moves_from_current_position" /\ t.pc = "done") =>
         /\ \A j \in 1..Len(w) : Legal(w[j].arg, w[j].val)
         /\ t.result = "cannotmove" =>
              /\ i \in 1..Len(t.movelist)
              /\ t.named = t.movelist[i]
              /\ ~Legal(wpos[t.s], t.movelist[i])
              /\ Len(w) = i - 1
              /\ \A j \in 1..(i - 1) : w[j].val = t.movelist[j]
              /\ stdin[t.s] = << >>

C21_Witness ==
  LET t == task["c1"] IN
  /\ t.op = "make_moves_from_current_position"
  /\ t.movelist = << "e2e4", "e2e4" >>
  /\ t.result = "cannotmove"
  /\ t.named = "e2e4"
  /\ Len(MoveCmds(t)) = 1
  /\ wpos["s1"] = "fen_e4"

\* C22: make_moves_from_current_position with an empty list or without a
\* list completes in the step that invokes it, writes nothing and changes
\* neither the position, nor this.info, nor the parameters.
C22_EmptyMovesNoOp ==
  [][ \A c \in Callers :
        LET t == task'[c] IN
        (t # task[c] /\ task[c].pc = "done"
           /\ t.op = "make_moves_from_current_position"
           /\ (~t.defined \/ t.movelist = << >>)) =>
          /\ t.pc = "done" /\ t.result = "ok"
          /\ t.log = << >>
          /\ UNCHANGED << stdin, stdout, lineBuffer, readq, wpos, info, heap,
                          parameters, num_nodes >> ]_vars

C22_Witness ==
  LET t == task["c1"] IN
  /\ t.op = "make_moves_from_current_position"
  /\ ~t.defined
  /\ t.result = "ok"
  /\ info["s1"] # ""
  /\ wpos["s1"] = "fenA"

\* C23: when set_fen_position, set_position or make_moves_from_current_position
\* with a non-empty list has returned, this.info is the empty string.
C23_InfoCleared ==
  \A c \in Callers :
    LET t == task[c] IN
    (Succeeded(t)
       /\ \/ t.op \in {"set_fen_position", "set_position"}
          \/ (t.op = "make_moves_from_current_position" /\ t.defined /\ t.movelist # << >>))
      => info[t.s] = ""

C23_Witness ==
  LET t == task["c1"] IN
  /\ t.op = "make_moves_from_current_position"
  /\ Succeeded(t)
  /\ t.movelist = << "e2e4" >>
  /\ t.info0 # ""
  /\ info["s1"] = ""

\* C24: get_fen_position returns the position string the worker holds, which
\* is the one set_fen_position last sent it.
C24_RoundTrip ==
  \A c \in Callers :
    LET t == task[c] IN
    (t.op = "get_fen_position" /\ Succeeded(t)) => t.fen = wpos[t.s]

\* C25: no step of an is_fen_valid call changes the calling session's live
\* parameters, info line or position, or ends its worker.
C25_FenValidFrame ==
  [][ \A c \in Callers :
        LET t == task'[c]
            h == t.home
        IN (t.op = "is_fen_valid" /\ t # task[c]) =>
             /\ heap'[parameters'[h]] = heap[parameters[h]]
             /\ info'[h] = info[h]
             /\ num_nodes'[h] = num_nodes[h]
             /\ wpos'[h] = wpos[h]
             /\ stdin'[h] = stdin[h]
             /\ exited'[h] = exited[h] ]_vars

(***************************************************************************)
(* The perspective of the scores.                                          *)
(***************************************************************************)
\* Black is to move in the position the worker of session s holds.
BlackToMove(s) == FenTable[wpos[s]].side = "b"

\* What get_evaluation returns from the search output lines on session s
\* when get_turn_perspective() is tp.
EvaluationUnder(tp, s, lines) ==
  LastInfo(lines).n * compare(tp, includes_w(FenOfLine(wpos[s])))

\* C26: for the same position and the same worker output, get_evaluation
\* under turn_perspective = true and under turn_perspective = false return
\* values of equal magnitude and opposite sign.
C26_SignFlips ==
  \A c \in Callers :
    LET t == task[c] IN
    (t.op = "get_evaluation" /\ Succeeded(t)) =>
      /\ t.value = EvaluationUnder(turn_perspective[t.s], t.s, t.lines)
      /\ EvaluationUnder(TRUE, t.s, t.lines) = 0 - EvaluationUnder(FALSE, t.s, t.lines)
      /\ t.value # 0

\* C26, amended: for the same position and the same worker output, the
\* value get_evaluation returns under turn_perspective = false is the value
\* it returns under turn_perspective = true multiplied by -1 when Black is
\* to move, and is that same value when White is to move.
C26_SignFlipsForBlack ==
  \A c \in Callers :
    LET t == task[c] IN
    (t.op = "get_evaluation" /\ Succeeded(t)) =>
      /\ t.value = EvaluationUnder(turn_perspective[t.s], t.s, t.lines)
      /\ EvaluationUnder(FALSE, t.s, t.lines) =
           IF BlackToMove(t.s) THEN 0 - EvaluationUnder(TRUE, t.s, t.lines)
           ELSE EvaluationUnder(TRUE, t.s, t.lines)

\* get_evaluation has returned under turn_perspective = false with Black to
\* move: the worker's value came back with its sign changed.
C26_Witness ==
  \E c \in Callers :
    LET t == task[c] IN
    /\ t.op = "get_evaluation" /\ Succeeded(t)
    /\ ~turn_perspective[t.s] /\ BlackToMove(t.s)
    /\ t.value = 0 - LastInfo(SearchOutput(wpos[t.s])).n
    /\ t.value # 0

\* The multiplier the claim gives for a call on session s.
SearchSign(s) == IF ~turn_perspective[s] /\ BlackToMove(s) THEN 0 - 1 ELSE 1
StaticSign(s) == IF turn_perspective[s] /\ BlackToMove(s) THEN 0 - 1 ELSE 1
\* The worker's lines of the final depth for a position.
FinalLines(pos) == SelectSeq(SearchOutput(pos), LAMBDA l : l.final)

\* C27: one sign multiplier is computed per call and applied to every score
\* the call returns: for get_evaluation and for every Centipawn and Mate of
\* get_top_moves it is -1 exactly when turn_perspective is false and Black
\* is to move; for get_static_eval it is -1 exactly when turn_perspective
\* is true and Black is to move; otherwise it is +1.
C27_SignMultiplier ==
  \A c \in Callers :
    LET t == task[c]
        out == FinalLines(wpos[t.s])
    IN Succeeded(t) =>
         /\ t.op = "get_evaluation" =>
               /\ t.compare = SearchSign(t.s)
               /\ t.value = LastInfo(SearchOutput(wpos[t.s])).n * SearchSign(t.s)
         /\ t.op = "get_top_moves" =>
               /\ t.compare = SearchSign(t.s)
               /\ Len(t.top_moves) = Len(out)
               /\ \A i \in 1..Len(out) :
                     /\ t.top_moves[i].Centipawn =
                          IF out[i].v = "cp" THEN Some(out[i].n * SearchSign(t.s)) ELSE Null
                     /\ t.top_moves[i].Mate =
                          IF out[i].v = "mate" THEN Some(out[i].n * SearchSign(t.s)) ELSE Null
         /\ t.op = "get_static_eval" =>
               /\ t.compare = StaticSign(t.s)
               /\ t.isnull = (StaticEvalOutput(wpos[t.s]).v = "none")
               /\ ~t.isnull => t.value = StaticEvalOutput(wpos[t.s]).n * StaticSign(t.s)

\* get_top_moves has returned two moves, one with a Centipawn and one with
\* a Mate value, under turn_perspective = false with Black to move.
C27_Witness ==
  \E c \in Callers :
    LET t == task[c] IN
    /\ t.op = "get_top_moves" /\ Succeeded(t)
    /\ ~turn_perspective[t.s] /\ BlackToMove(t.s)
    /\ t.compare = 0 - 1
    /\ Len(t.top_moves) = 2
    /\ ~t.top_moves[1].Mate.null /\ t.top_moves[1].Mate.n > 0
    /\ ~t.top_moves[2].Centipawn.null /\ t.top_moves[2].Centipawn.n > 0

(***************************************************************************)
(* The classification of moves.                                            *)
(***************************************************************************)
\* The piece the worker of session s has on a square (" " for none).
PieceAt(s, file, rank) ==
  Ranks(FenTable[wpos[s]].board)[CharCode(rank) - CharCode("0")][CharCode(file) - CharCode("a") + 1]
MoveText(mv) == mv[1] \o mv[2] \o mv[3] \o mv[4]
Chess960(s) == heap[parameters[s]]["UCI_Chess960"].b
IsCapture(t) == t.op = "will_move_be_a_capture" /\ t.pc = "done"

\* C28: with UCI_Chess960 enabled, will_move_be_a_capture returns NO_CAPTURE
\* for a legal move whose origin square holds a king and whose destination
\* square holds a rook of the same colour, and DIRECT_CAPTURE for any other
\* legal move onto an occupied square.
C28_Chess960Castling ==
  \A c \in Callers :
    LET t == task[c]
        from == PieceAt(t.s, t.move[1], t.move[2])
        to == PieceAt(t.s, t.move[3], t.move[4])
    IN (IsCapture(t) /\ Chess960(t.s) /\ Legal(wpos[t.s], MoveText(t.move)) /\ to # " ") =>
         /\ Succeeded(t)
         /\ t.ret = IF << from, to >> \in { << "K", "R" >>, << "k", "r" >> }
                      THEN NO_CAPTURE ELSE DIRECT_CAPTURE

\* C29: with UCI_Chess960 disabled, for a legal move will_move_be_a_capture
\* returns DIRECT_CAPTURE exactly when the destination square is occupied,
\* EN_PASSANT exactly when the destination is empty, is the position's
\* en-passant target square and the moving piece is a pawn, and NO_CAPTURE
\* in every other case; for an illegal move it fails with an error and
\* returns no classification.
C29_CaptureKinds ==
  \A c \in Callers :
    LET t == task[c]
        from == PieceAt(t.s, t.move[1], t.move[2])
        to == PieceAt(t.s, t.move[3], t.move[4])
    IN (IsCapture(t) /\ ~Chess960(t.s)) =>
         IF Legal(wpos[t.s], MoveText(t.move))
           THEN /\ Succeeded(t)
                /\ t.ret = IF to # " " THEN DIRECT_CAPTURE
                           ELSE IF /\ t.move[3] \o t.move[4] = FenTable[wpos[t.s]].ep
                                   /\ from \in {"P", "p"}
                             THEN EN_PASSANT
                           ELSE NO_CAPTURE
           ELSE /\ t.result = "notvalid"
                /\ t.ret = ""

\* With UCI_Chess960 disabled, a pawn's move to the empty en-passant target
\* square has been classified EN_PASSANT.
C29_Witness ==
  \E c \in Callers :
    LET t == task[c] IN
    /\ IsCapture(t) /\ Succeeded(t) /\ ~Chess960(t.s)
    /\ PieceAt(t.s, t.move[3], t.move[4]) = " "
    /\ PieceAt(t.s, t.move[1], t.move[2]) = "P"
    /\ t.move[3] \o t.move[4] = FenTable[wpos[t.s]].ep
    /\ t.ret = EN_PASSANT

\* C30: after get_top_moves returns successfully, the live MultiPV
\* parameter and the configured node budget equal their values before the
\* call, for any requested move count and any num_nodes option.
C30_TopMovesRestores ==
  \A c \in Callers :
    LET t == task[c] IN
    (t.op = "get_top_moves" /\ Succeeded(t)) =>
      /\ LiveOf(t.s)["MultiPV"] = t.pre["MultiPV"]
      /\ num_nodes[t.s] = t.num_nodes0

\* get_top_moves has returned after it asked for a number of moves other
\* than MultiPV and searched with a node budget other than the configured.
C30_Witness ==
  \E c \in Callers :
    LET t == task[c] IN
    /\ t.op = "get_top_moves" /\ Succeeded(t)
    /\ Num(t.n) # t.pre["MultiPV"]
    /\ t.nodes # 0 /\ t.nodes # t.num_nodes0
    /\ \E i \in 1..Len(t.log) : t.log[i] = SetOptionCmd("MultiPV", ToString(t.n))
    /\ \E i \in 1..Len(t.log) : t.log[i] = GoCmd("nodes")

\* C31: if the search inside get_top_moves fails (worker crash, unexpected
\* end of stream or read timeout), the live MultiPV parameter and the node
\* budget have their values of before the call when the failure reaches
\* the caller.
C31_RestoredOnFailure ==
  \A c \in Callers :
    LET t == task[c] IN
    (/\ t.op = "get_top_moves" /\ t.pc = "done"
     /\ t.result \in {"crashed", "streamended", "readtimeout"}) =>
      /\ LiveOf(t.s)["MultiPV"] = t.pre["MultiPV"]
      /\ num_nodes[t.s] = t.num_nodes0

(***************************************************************************)
(* Perft.                                                                  *)
(***************************************************************************)
\* The lines a get_perft has read before the line with "searched", the
\* move:count lines among them, and a move that is on two of them.
PerftRead(t) == SelectSeq(t.lines, LAMBDA l : l.k # "searched")
PerftMoves(t) == SelectSeq(t.lines, LAMBDA l : l.k = "move")
PerftRepeats(t) ==
  \E i, j \in 1..Len(PerftMoves(t)) : i # j /\ PerftMoves(t)[i].v = PerftMoves(t)[j].v

\* C32: get_perft returns one entry per move:count line emitted before the
\* line containing the word searched, takes the grand total from that line,
\* and fails with an error if the same move key appears on two lines.
C32_Perft ==
  \A c \in Callers :
    LET t == task[c] IN
    (t.op = "get_perft" /\ t.pc = "done" /\ t.n >= 1) =>
      IF PerftRepeats(t) THEN t.result = "duplicate"
      ELSE /\ Succeeded(t)
           /\ t.lines[Len(t.lines)].k = "searched"
           /\ t.value = t.lines[Len(t.lines)].n
           /\ Len(t.move_possibilities) = Len(PerftMoves(t))
           /\ \A i \in 1..Len(PerftMoves(t)) :
                 t.move_possibilities[i] =
                   [move |-> PerftMoves(t)[i].v, n |-> PerftMoves(t)[i].n, nan |-> FALSE]

\* get_perft has returned the three entries and the total of the worker's
\* output for the position it holds, after another operation on the session.
C32_Witness ==
  \E c \in Callers :
    LET t == task[c] IN
    /\ t.op = "get_perft" /\ Succeeded(t)
    /\ t.lines = PerftOutput(wpos[t.s])
    /\ Len(t.move_possibilities) = 3
    /\ t.value = 3
    /\ nops = 2

\* The day a development build's version text names, and the day of a release
BuildDay(version_text) ==
  IF Len(version_text) = 6
    THEN DayNumber(2000 + DigitsValue(SubSeq(version_text, 5, 6), 2),
                   DigitsValue(SubSeq(version_text, 3, 4), 2),
                   DigitsValue(SubSeq(version_text, 1, 2), 2))
  ELSE DayNumber(DigitsValue(SubSeq(version_text, 5, 8), 4),
                 DigitsValue(SubSeq(version_text, 9, 10), 2),
                 DigitsValue(SubSeq(version_text, 11, 12), 2))

ReleaseDay(i) ==
  DayNumber(DigitsValue(SubSeq(RELEASES[i].value, 1, 4), 4),
            DigitsValue(SubSeq(RELEASES[i].value, 6, 7), 2),
            DigitsValue(SubSeq(RELEASES[i].value, 9, 10), 2))

IsDevelopmentBuild(version_text) ==
  Len(version_text) = 6 \/ startsWith(version_text, << "d", "e", "v", "-" >>)

\* The releases dated on or before the day of the build
ReleasedBy(version_text) ==
  { i \in 1..Len(RELEASES) : ReleaseDay(i) <= BuildDay(version_text) }

\* C33: the version parsed from the text of a development build is the
\* release with the latest date on or before the date of the build, and
\* the parsing fails when the build is dated before every release.
C33_DevBuildRelease ==
  \A c \in Callers :
    LET t == task[c] IN
    (t.op = "parse_stockfish_version" /\ IsDevelopmentBuild(t.version_text)) =>
      IF ReleasedBy(t.version_text) = {} THEN t.result = "unable"
      ELSE /\ t.result = "ok"
           /\ \E i \in ReleasedBy(t.version_text) :
                /\ \A j \in ReleasedBy(t.version_text) : ReleaseDay(j) <= ReleaseDay(i)
                /\ t.version.text = RELEASES[i].key
                /\ t.version.major = parseInt(At(split_on(RELEASES[i].key, "."), 0))
                /\ t.version.minor = parseInt(At(split_on(RELEASES[i].key, "."), 1))

\* C34: a version text without a minor number is parsed with minor = 0.
C34_MinorZeroWhenAbsent ==
  \A c \in Callers :
    LET t == task[c] IN
    (/\ t.op = "parse_stockfish_version" /\ t.result = "ok"
     /\ ~IsDevelopmentBuild(t.version_text)
     /\ Len(split_on(t.version_text, ".")) = 1) =>
      t.version.minor = Num(0)

\* The move of the bestmove line that is_move_correct has read
BestMoveLine(t) == t.lines[Len(t.lines)].v

\* is_move_correct is true exactly when its search returns a move other
\* than the placeholder of no move.
C35_TrueOfAnyMove ==
  \A c \in Callers :
    LET t == task[c] IN
    (t.op = "is_move_correct" /\ Succeeded(t)) =>
      (t.ret = "true" <=> BestMoveLine(t) # "(none)")
      /\ (t.ret = "false" <=> BestMoveLine(t) = "(none)")

\* C35: is_move_correct(m) is true exactly when the worker's search
\* restricted to m returns m itself, and false when it returns the
\* placeholder of no move or another move.
C35_TrueOfTheMove ==
  \A c \in Callers :
    LET t == task[c] IN
    (t.op = "is_move_correct" /\ Succeeded(t)) =>
      /\ (t.ret = "true" <=> BestMoveLine(t) = Head(t.moves))
      /\ (t.ret = "false" <=> BestMoveLine(t) # Head(t.moves))

\* is_move_correct has returned false of a move, the worker having
\* answered with another move.
C35_Witness ==
  \E c \in Callers :
    LET t == task[c] IN
    /\ t.op = "is_move_correct" /\ Succeeded(t)
    /\ BestMoveLine(t) \notin {"(none)", Head(t.moves)}
    /\ t.ret = "false"

\* C36: get_top_moves(n) with n above the maximum of MultiPV (500) writes
\* no search command and does not succeed: it fails with the error of the
\* validation of the parameter.
C36_OutOfBoundRejected ==
  \A c \in Callers :
    LET t == task[c] IN
    (t.op = "get_top_moves" /\ t.n > 500) =>
      /\ \A i \in 1..Len(t.log) : t.log[i].c # "go"
      /\ t.pc = "done" => (~Succeeded(t) /\ t.result \notin {"crashed", "streamended", "readtimeout"})

\* C37: the lines a call collects are lines the worker wrote in answer to
\* the call's own command, also after a call before it failed on a read
\* timeout: a get_top_moves that has returned its moves has not read them
\* while the worker had yet to take its search command.
C37_OwnLinesOnly ==
  \A c \in Callers :
    LET t == task[c] IN
    (t.op = "get_top_moves" /\ Succeeded(t)) =>
      \A i \in 1..Len(stdin[t.s]) : stdin[t.s][i].c # "go"

\* C38: no line is stranded in #lineBuffer: while a call waits in
\* #readline for a chunk, the buffer holds no complete line.
C38_NoLineStranded ==
  \A s \in Sessions :
    lineBuffer[s] # << >> =>
      \A i \in 1..Len(readq[s]) : readq[s][i] \in {"detached", "abandoned"}

\* C39: on a started session, every change of a value of the live
\* parameters comes in a step in which the setoption command of that key
\* and value is written to the worker, also after quit was sent and after
\* the worker has exited.
C39_RecordedOnlyIfSent ==
  [][ \A s \in Sessions :
        (started[s] = "yes" /\ started'[s] = "yes" /\ parameters'[s] = parameters[s]) =>
          \A k \in DOMAIN LiveOf(s) :
            heap'[parameters[s]][k] # heap[parameters[s]][k] =>
              \E i \in (Len(stdin[s]) + 1)..Len(stdin'[s]) :
                stdin'[s][i] = SetOptionCmd(k, String(heap'[parameters[s]][k])) ]_vars

\* C40: whenever is_fen_valid has returned or thrown after it spawned a
\* temporary worker, that worker has exited.
C40_TemporaryWorkerKilled ==
  \A c \in Callers :
    LET t == task[c] IN
    (t.op = "is_fen_valid" /\ t.pc = "done" /\ t.s # t.home) => exited[t.s]

====
